---- MODULE Spec2Model ----
(***************************************************************************)
(* A model of packspec (src/packspec/cli.py): the loader parse_specs /     *)
(* parse_spec / parse_feature, and the runner test_specs / test_spec /     *)
(* test_feature with dereference_value, normalize_value, get_property and  *)
(* set_property.                                                           *)
(*                                                                         *)
(* The data of a document (what yaml.load returns) are trees of tagged     *)
(* records [k |-> kind, v |-> payload]: none, bool, int, str, list, tuple, *)
(* dict (its items and the order of its keys).                             *)
(* The objects of a run live in a heap, a sequence of objects addressed by *)
(* their position: a dict, a list and a function are reached through       *)
(* [k |-> "ref", v |-> address], so that an object bound under two names   *)
(* is one object, and a change of it in place shows under both.  None,     *)
(* numbers, strings and tuples are immutable and stand for themselves.     *)
(* A raised exception is the pseudo-value [k |-> "raise", v |-> class],    *)
(* which every operator propagates the way the interpreter unwinds.        *)
(*                                                                         *)
(* Where Python's behaviour is not modelled (a character outside the       *)
(* alphabet below, a built-in attribute other than the ones listed, an     *)
(* installed module other than mathlib) the operators are undefined: they  *)
(* have no value there, rather than a value the program may not have.      *)
(***************************************************************************)
EXTENDS Integers, Sequences, FiniteSets, TLC

VARIABLES files, hooks, pc, heap, specs, si, fi, passed, success, reports, last, error

vars == <<files, hooks, pc, heap, specs, si, fi, passed, success, reports, last, error>>

\* Op applied to the value of e, which is computed once: TLC hands an
\* operator its arguments unevaluated, and a loop that threads an
\* accumulator through a recursive operator binds each step's value first.
With(Op(_), e) == CHOOSE result \in {Op(x) : x \in {e}} : TRUE

\* no value: the behaviour of the program here is outside the model
undefined == CHOOSE nothing \in {} : TRUE

(***************************************************************************)
(* Strings.  The alphabet is the tab, the line feed, the form feed, the    *)
(* carriage return, the printable ASCII characters but the grave accent    *)
(* (which a TLA+ string cannot hold), and the characters U+00A0 to U+00FF. *)
(***************************************************************************)
\* s[i - 1], the i-th character of s
char(s, i) == SubSeq(s, i, i)
\* the characters of s, as a set
characters(s) == {char(s, i) : i \in 1..Len(s)}
\* c in s, for a character c
contains(s, c) == \E i \in 1..Len(s) : char(s, i) = c
\* s.index(c) + 1
position(s, c) == CHOOSE i \in 1..Len(s) : char(s, i) = c

\* The characters in code-point order: from the space (32) to the
\* underscore (95), from 'a' (97) to the tilde (126), and from the
\* no-break space (160) to U+00FF (255).
UpToUnderscore == " !\"#$%&'()*+,-./0123456789:;<=>?@ABCDEFGHIJKLMNOPQRSTUVWXYZ[\\]^_"
FromLowercase == "abcdefghijklmnopqrstuvwxyz{|}~"
Latin1 == " ¡¢£¤¥¦§¨©ª«¬­®¯°±²³´µ¶·¸¹º»¼½¾¿ÀÁÂÃÄÅÆÇÈÉÊËÌÍÎÏÐÑÒÓÔÕÖ×ØÙÚÛÜÝÞßàáâãäåæçèéêëìíîïðñòóôõö÷øùúûüýþÿ"
CodePoint ==
    [c \in {"\t", "\n", "\f", "\r"} \cup characters(UpToUnderscore)
            \cup characters(FromLowercase) \cup characters(Latin1) |->
        CASE c = "\t" -> 9
          [] c = "\n" -> 10
          [] c = "\f" -> 12
          [] c = "\r" -> 13
          [] contains(UpToUnderscore, c) -> 31 + position(UpToUnderscore, c)
          [] contains(FromLowercase, c) -> 96 + position(FromLowercase, c)
          [] OTHER -> 159 + position(Latin1, c)]

\* ord(c), for a character of the alphabet
ord(c) == CodePoint[c]

\* The cased characters: c.isupper() and c.islower() hold for the ones of
\* the first and of the second string.  The i-th letter of LowerLetters is
\* the lowercase of the i-th one of UpperLetters.
UpperLetters == "ABCDEFGHIJKLMNOPQRSTUVWXYZÀÁÂÃÄÅÆÇÈÉÊËÌÍÎÏÐÑÒÓÔÕÖØÙÚÛÜÝÞ"
LowerLetters == "abcdefghijklmnopqrstuvwxyzàáâãäåæçèéêëìíîïðñòóôõöøùúûüýþ"
\* "upper", "lower" or "none" for every character of the alphabet
Case ==
    [c \in DOMAIN CodePoint |->
        IF c \in characters(UpperLetters) THEN "upper"
        ELSE IF c \in characters(LowerLetters) \cup characters("ªµºßÿ") THEN "lower"
        ELSE "none"]
\* c.isspace(), as int() and str.strip() see it
Space == [c \in DOMAIN CodePoint |-> c \in {"\t", "\n", "\f", "\r", " ", " "}]
\* the value of a decimal digit
Digit == [c \in characters("0123456789") |-> position("0123456789", c) - 1]
\* c is a decimal digit
IsDigit == [c \in DOMAIN CodePoint |-> c \in DOMAIN Digit]

\* a < b on strings, which is the order of sorted() (cli.py:55, 117)
RECURSIVE Before(_, _)
Before(a, b) ==
    IF b = "" THEN FALSE
    ELSE IF a = "" THEN TRUE
    ELSE IF Head(a) = Head(b) THEN Before(Tail(a), Tail(b))
    ELSE ord(Head(a)) < ord(Head(b))

\* sorted(S) for a set S of strings
RECURSIVE sorted(_)
sorted(S) ==
    IF S = {} THEN <<>>
    ELSE \* the least string of S
         LET least == CHOOSE x \in S : \A y \in S \ {x} : Before(x, y)
         IN <<least>> \o sorted(S \ {least})

\* s.split('.')
RECURSIVE split(_)
split(s) ==
    IF ~contains(s, ".") THEN <<s>>
    ELSE LET dot == CHOOSE i \in 1..Len(s) : char(s, i) = "." /\ \A j \in 1..(i - 1) : char(s, j) # "."
         IN <<SubSeq(s, 1, dot - 1)>> \o split(SubSeq(s, dot + 1, Len(s)))

\* s.startswith(prefix), s.endswith(suffix)
startswith(s, prefix) == Len(s) >= Len(prefix) /\ SubSeq(s, 1, Len(prefix)) = prefix
endswith(s, suffix) == Len(s) >= Len(suffix) /\ SubSeq(s, Len(s) - Len(suffix) + 1, Len(s)) = suffix

\* s.isupper(): s has an uppercase character and no lowercase one
isupper(s) ==
    /\ \E i \in 1..Len(s) : Case[char(s, i)] = "upper"
    /\ \A i \in 1..Len(s) : Case[char(s, i)] # "lower"

\* s.islower()
islower(s) ==
    /\ \E i \in 1..Len(s) : Case[char(s, i)] = "lower"
    /\ \A i \in 1..Len(s) : Case[char(s, i)] # "upper"

\* s.isdigit(): the decimal digits and the superscripts one, two and three
isdigit(s) ==
    /\ s # ""
    /\ \A i \in 1..Len(s) : IsDigit[char(s, i)] \/ char(s, i) \in characters("²³¹")

\* c.upper() and c.lower() for a character; the uppercase of the micro sign
\* and of y with diaeresis lies outside the alphabet
upper_char(c) ==
    IF contains(LowerLetters, c) THEN char(UpperLetters, position(LowerLetters, c))
    ELSE IF c = "ß" THEN "SS"
    ELSE IF c \in characters("µÿ") THEN undefined
    ELSE IF CodePoint[c] > 0 THEN c ELSE undefined
lower_char(c) ==
    IF contains(UpperLetters, c) THEN char(LowerLetters, position(UpperLetters, c))
    ELSE IF CodePoint[c] > 0 THEN c ELSE undefined

\* s.upper(), s.lower()
RECURSIVE upper(_)
upper(s) == IF s = "" THEN "" ELSE upper_char(Head(s)) \o upper(Tail(s))
RECURSIVE lower(_)
lower(s) == IF s = "" THEN "" ELSE lower_char(Head(s)) \o lower(Tail(s))

\* '/'.join(names)
RECURSIVE join(_)
join(names) ==
    IF names = <<>> THEN ""
    ELSE IF Len(names) = 1 THEN names[1]
    ELSE names[1] \o "/" \o join(Tail(names))

\* s.strip(), which int() applies to its argument
RECURSIVE strip(_)
strip(s) ==
    IF s = "" THEN s
    ELSE IF Space[Head(s)] THEN strip(Tail(s))
    ELSE IF Space[char(s, Len(s))] THEN strip(SubSeq(s, 1, Len(s) - 1))
    ELSE s

\* the number a string of digits (with single '_' between them) writes
RECURSIVE digits_value(_, _)
digits_value(s, n) ==
    IF s = "" THEN n
    ELSE IF Head(s) = "_" THEN digits_value(Tail(s), n)
    ELSE digits_value(Tail(s), 10 * n + Digit[Head(s)])

IsNumber(s) ==
    /\ s # ""
    /\ \A i \in 1..Len(s) : IsDigit[char(s, i)] \/ char(s, i) = "_"
    /\ Head(s) # "_"
    /\ char(s, Len(s)) # "_"
    /\ \A i \in 1..(Len(s) - 1) : ~(char(s, i) = "_" /\ char(s, i + 1) = "_")

(***************************************************************************)
(* Values                                                                  *)
(***************************************************************************)
NoneV == [k |-> "none", v |-> 0]
BoolV(b) == [k |-> "bool", v |-> b]
IntV(n) == [k |-> "int", v |-> n]
StrV(s) == [k |-> "str", v |-> s]
ListV(s) == [k |-> "list", v |-> s]
TupleV(s) == [k |-> "tuple", v |-> s]
\* A dict is its items and the order its keys were inserted in, which is
\* the order it is iterated in.
Dict(f, order) == [k |-> "dict", v |-> f, order |-> order]
\* the object at an address of the heap
RefV(address) == [k |-> "ref", v |-> address]
\* A function object: its code (the name it was defined under), the
\* attributes the interpreter keeps in slots of their own, and the address
\* of its __dict__, which holds every other attribute set on it.
FnV(code, module, dict) ==
    [k |-> "fn", v |-> code, name |-> code, qualname |-> code, doc |-> NoneV, module |-> module,
     defaults |-> NoneV, kwdefaults |-> NoneV, dict |-> dict]
\* What getattr gives for a method of a built-in type: a built-in method
\* (type "builtin") or a method-wrapper (type "wrapper") bound to self.
MethodV(binding, name, self) == [k |-> "method", v |-> name, self |-> self, type |-> binding]
Raise(kind) == [k |-> "raise", v |-> kind]
IsRaise(x) == x.k = "raise"

\* The sentinel the runner substitutes for a failed execution (cli.py:264, 269).
ERROR == StrV("ERROR")

\* A heap and a value in it (or the exception raised, with the heap as the
\* steps before it left it): what an operation that allocates or changes
\* objects gives back.
Ok(h, value) == [h |-> h, v |-> value]
\* a new object
alloc(h, object) == Ok(Append(h, object), RefV(Len(h) + 1))
\* the object at an address replaced
store(h, address, object) == [h EXCEPT ![address] = object]
\* type(value), as a word
type(h, value) == IF value.k = "ref" THEN h[value.v].k ELSE value.k
\* the items of a list or of a tuple
items_of(h, value) == IF value.k = "ref" THEN h[value.v].v ELSE value.v
\* the number a bool or an int is
number(value) == IF value.k = "bool" THEN (IF value.v THEN 1 ELSE 0) ELSE value.v

\* list(d.keys())[0]
OnlyKey(d) == d.order[1]

\* the items of a dict from its keys in order and their values in that order
from_items(order, values) ==
    [key \in {order[i] : i \in DOMAIN order} |-> values[CHOOSE i \in DOMAIN order : order[i] = key]]
\* list(d.values())
values_of(d) == [i \in DOMAIN d.order |-> d.v[d.order[i]]]

\* owner[name] = value on a dict
setitem(owner, name, value) ==
    Dict([key \in DOMAIN owner.v \cup {name} |-> IF key = name THEN value ELSE owner.v[key]],
         IF name \in DOMAIN owner.v THEN owner.order ELSE Append(owner.order, name))

\* owner.update(other) on a dict, from the items of other in their order
RECURSIVE update(_, _, _)
update(owner, other, order) ==
    IF order = <<>> THEN owner
    ELSE With(LAMBDA next : update(next, other, Tail(order)),
              setitem(owner, Head(order), other[Head(order)]))

\* The objects yaml.load builds for a value of a document (cli.py:78): a
\* new object for every list and every dict.
RECURSIVE construct(_, _)
RECURSIVE construct_items(_, _, _)
construct_items(h, items, done) ==
    IF items = <<>> THEN Ok(h, done)
    ELSE With(LAMBDA built : construct_items(built.h, Tail(items), Append(done, built.v)),
              construct(h, Head(items)))
construct(h, value) ==
    IF value.k = "list"
    THEN With(LAMBDA items : alloc(items.h, ListV(items.v)), construct_items(h, value.v, <<>>))
    ELSE IF value.k = "tuple"
    THEN With(LAMBDA items : Ok(items.h, TupleV(items.v)), construct_items(h, value.v, <<>>))
    ELSE IF value.k = "dict"
    THEN With(LAMBDA items : alloc(items.h, Dict(from_items(value.order, items.v), value.order)),
              construct_items(h, values_of(value), <<>>))
    ELSE Ok(h, value)

\* copy.deepcopy(value) (cli.py:243, 316): a new list for every list and a
\* new dict for every dict that can be reached from the value, with the
\* copies of their items; memo maps the objects copied so far to their
\* copies, so that an object met again is copied once.  The new object is
\* there before its items are copied.  A function is its own copy.
Copied(h, value, memo) == [h |-> h, v |-> value, memo |-> memo]
RECURSIVE deepcopy_value(_, _, _)
RECURSIVE deepcopy_items(_, _, _, _)
deepcopy_items(h, items, memo, done) ==
    IF items = <<>> THEN Copied(h, done, memo)
    ELSE With(LAMBDA copy : deepcopy_items(copy.h, Tail(items), copy.memo, Append(done, copy.v)),
              deepcopy_value(h, Head(items), memo))
deepcopy_value(h, value, memo) ==
    IF value.k = "tuple"
    THEN With(LAMBDA items : Copied(items.h, TupleV(items.v), items.memo),
              deepcopy_items(h, value.v, memo, <<>>))
    ELSE IF value.k # "ref" THEN Copied(h, value, memo)
    ELSE IF h[value.v].k = "fn" THEN Copied(h, value, memo)
    ELSE IF value.v \in DOMAIN memo THEN Copied(h, RefV(memo[value.v]), memo)
    ELSE LET address == Len(h) + 1
             original == h[value.v]
             entered == [a \in DOMAIN memo \cup {value.v} |-> IF a = value.v THEN address ELSE memo[a]]
         IN IF original.k = "list"
            THEN With(LAMBDA items : Copied(store(items.h, address, ListV(items.v)), RefV(address),
                                            items.memo),
                      deepcopy_items(Append(h, ListV(<<>>)), original.v, entered, <<>>))
            ELSE With(LAMBDA items :
                        Copied(store(items.h, address,
                                     Dict(from_items(original.order, items.v), original.order)),
                               RefV(address), items.memo),
                      deepcopy_items(Append(h, Dict(<<>>, <<>>)), values_of(original), entered, <<>>))
deepcopy(h, value) == With(LAMBDA copy : Ok(copy.h, copy.v), deepcopy_value(h, value, <<>>))

\* int(name): the number, or ValueError
int(name) ==
    LET s == strip(name)
    IN IF IsNumber(s) THEN IntV(digits_value(s, 0))
       ELSE IF Len(s) > 1 /\ Head(s) = "+" /\ IsNumber(Tail(s)) THEN IntV(digits_value(Tail(s), 0))
       ELSE IF Len(s) > 1 /\ Head(s) = "-" /\ IsNumber(Tail(s)) THEN IntV(0 - digits_value(Tail(s), 0))
       ELSE Raise("ValueError")

\* The place of items[number] in the sequence items, from 1: negative
\* indexes count from the end; 0 when the index is out of range.
place(items, index) ==
    IF 0 <= index /\ index < Len(items) THEN index + 1
    ELSE IF index < 0 /\ 0 - index <= Len(items) THEN Len(items) + index + 1
    ELSE 0

(***************************************************************************)
(* The attributes Python builds in, which getattr(owner, name, None)       *)
(* (cli.py:348) finds on None, a number, a string, a function and a        *)
(* method.                                                                 *)
(***************************************************************************)
\* the methods every object has: getattr gives a built-in method bound to it
ObjectMethods ==
    { "__dir__", "__format__", "__getstate__", "__reduce__", "__reduce_ex__", "__sizeof__" }

\* the other built-in methods of a string and of a number
StrMethods ==
    { "__getnewargs__", "capitalize", "casefold", "center", "count", "encode", "endswith",
      "expandtabs", "find", "format", "format_map", "index", "isalnum", "isalpha",
      "isascii", "isdecimal", "isdigit", "isidentifier", "islower", "isnumeric",
      "isprintable", "isspace", "istitle", "isupper", "join", "ljust", "lower", "lstrip",
      "partition", "removeprefix", "removesuffix", "replace", "rfind", "rindex", "rjust",
      "rpartition", "rsplit", "rstrip", "split", "splitlines", "startswith", "strip",
      "swapcase", "title", "translate", "upper", "zfill" }

IntMethods ==
    { "__ceil__", "__floor__", "__getnewargs__", "__round__", "__trunc__",
      "as_integer_ratio", "bit_count", "bit_length", "conjugate", "to_bytes" }

\* the slots every object has but a __bool__ of its own: getattr gives a
\* method-wrapper bound to it
ObjectWrappers ==
    { "__delattr__", "__eq__", "__ge__", "__getattribute__", "__gt__", "__hash__",
      "__init__", "__le__", "__lt__", "__ne__", "__repr__", "__setattr__", "__str__" }

\* the other slots of None, of a string, of a number, of a function and of
\* a method
NoneWrappers ==
    { "__bool__" }

StrWrappers ==
    { "__add__", "__contains__", "__getitem__", "__iter__", "__len__", "__mod__",
      "__mul__", "__rmod__", "__rmul__" }

IntWrappers ==
    { "__abs__", "__add__", "__and__", "__bool__", "__divmod__", "__float__",
      "__floordiv__", "__index__", "__int__", "__invert__", "__lshift__", "__mod__",
      "__mul__", "__neg__", "__or__", "__pos__", "__pow__", "__radd__", "__rand__",
      "__rdivmod__", "__rfloordiv__", "__rlshift__", "__rmod__", "__rmul__", "__ror__",
      "__rpow__", "__rrshift__", "__rshift__", "__rsub__", "__rtruediv__", "__rxor__",
      "__sub__", "__truediv__", "__xor__" }

FunctionWrappers ==
    { "__call__", "__get__" }

MethodWrappers ==
    { "__call__" }

\* the attributes every object has whose value is not a value of this model
\* (a type, a method of the type)
ObjectOpaque == {"__class__", "__init_subclass__", "__new__", "__subclasshook__"}

\* type(value).__name__
type_name(h, value) ==
    LET kind == type(h, value)
    IN CASE kind = "none" -> "NoneType"
         [] kind = "fn" -> "function"
         [] kind = "method" -> IF value.type = "builtin" THEN "builtin_function_or_method"
                               ELSE "method-wrapper"
         [] OTHER -> kind

\* what the lookup of an attribute that the owner does not have raises
NoAttribute == Raise("AttributeError")

\* the attribute of a method
method_attribute(h, owner, name) ==
    IF name = "__name__" THEN StrV(owner.v)
    ELSE IF name = "__self__" THEN owner.self
    ELSE IF name = "__qualname__" /\ owner.type = "builtin"
    THEN StrV(type_name(h, owner.self) \o "." \o owner.v)
    ELSE IF name = "__module__" /\ owner.type = "builtin" THEN NoneV
    ELSE IF name \in ObjectMethods THEN MethodV("builtin", name, owner)
    ELSE IF name \in ObjectWrappers \cup MethodWrappers THEN MethodV("wrapper", name, owner)
    ELSE IF name \in ObjectOpaque \cup {"__doc__", "__text_signature__", "__qualname__", "__objclass__"}
    THEN undefined
    ELSE NoAttribute

\* The attribute of a function: the slots come first, then the __dict__ of
\* the function, then the methods of the type.
function_attribute(h, owner, name) ==
    LET function == h[owner.v]
    IN CASE name = "__name__" -> StrV(function.name)
         [] name = "__qualname__" -> StrV(function.qualname)
         [] name = "__doc__" -> function.doc
         [] name = "__module__" -> function.module
         [] name = "__defaults__" -> function.defaults
         [] name = "__kwdefaults__" -> function.kwdefaults
         [] name = "__dict__" -> RefV(function.dict)
         [] name = "__closure__" -> NoneV
         [] name \in {"__annotations__", "__builtins__", "__class__", "__code__", "__globals__"} ->
                undefined
         [] OTHER ->
                IF name \in DOMAIN h[function.dict].v THEN h[function.dict].v[name]
                ELSE IF name \in ObjectMethods THEN MethodV("builtin", name, owner)
                ELSE IF name \in ObjectWrappers \cup FunctionWrappers THEN MethodV("wrapper", name, owner)
                ELSE IF name \in ObjectOpaque THEN undefined
                ELSE NoAttribute

\* The attribute name of an owner that is no dict, list or tuple, or
\* AttributeError when it has none of that name.  The __doc__ of None is an
\* attribute it has, with the value None.
attribute(h, owner, name) ==
    LET kind == type(h, owner)
    IN IF kind = "fn" THEN function_attribute(h, owner, name)
       ELSE IF kind = "method" THEN method_attribute(h, owner, name)
       ELSE IF name \in ObjectMethods THEN MethodV("builtin", name, owner)
       ELSE IF kind = "none"
       THEN IF name \in ObjectWrappers \cup NoneWrappers THEN MethodV("wrapper", name, owner)
            ELSE IF name = "__doc__" THEN NoneV
            ELSE IF name \in ObjectOpaque THEN undefined
            ELSE NoAttribute
       ELSE IF kind = "str"
       THEN IF name \in StrMethods THEN MethodV("builtin", name, owner)
            ELSE IF name \in ObjectWrappers \cup StrWrappers THEN MethodV("wrapper", name, owner)
            ELSE IF name \in ObjectOpaque \cup {"__doc__", "maketrans"} THEN undefined
            ELSE NoAttribute
       ELSE \* a bool or an int
            IF name \in {"real", "numerator"} THEN IntV(number(owner))
            ELSE IF name = "imag" THEN IntV(0)
            ELSE IF name = "denominator" THEN IntV(1)
            ELSE IF name \in IntMethods THEN MethodV("builtin", name, owner)
            ELSE IF name \in ObjectWrappers \cup IntWrappers THEN MethodV("wrapper", name, owner)
            ELSE IF name \in ObjectOpaque \cup {"__doc__", "from_bytes"} THEN undefined
            ELSE NoAttribute

\* getattr(owner, name, None): None in place of the AttributeError
getattr(h, owner, name) ==
    With(LAMBDA found : IF found = NoAttribute THEN NoneV ELSE found, attribute(h, owner, name))

\* setattr(owner, name, value) on a function: the heap afterwards, with
\* None or the exception raised
function_setattr(h, owner, name, value) ==
    LET function == h[owner.v]
        kind == type(h, value)
        \* the function object replaced
        set(changed) == Ok(store(h, owner.v, changed), NoneV)
    IN CASE name \in {"__name__", "__qualname__"} ->
                IF kind # "str" THEN Ok(h, Raise("TypeError"))
                ELSE IF name = "__name__" THEN set([function EXCEPT !.name = value.v])
                ELSE set([function EXCEPT !.qualname = value.v])
         [] name = "__doc__" -> set([function EXCEPT !.doc = value])
         [] name = "__module__" -> set([function EXCEPT !.module = value])
         [] name = "__defaults__" ->
                IF kind \in {"none", "tuple"} THEN set([function EXCEPT !.defaults = value])
                ELSE Ok(h, Raise("TypeError"))
         [] name = "__kwdefaults__" ->
                IF kind \in {"none", "dict"} THEN set([function EXCEPT !.kwdefaults = value])
                ELSE Ok(h, Raise("TypeError"))
         [] name = "__dict__" ->
                IF kind = "dict" THEN set([function EXCEPT !.dict = value.v])
                ELSE Ok(h, Raise("TypeError"))
         [] name = "__annotations__" ->
                IF kind \in {"none", "dict"} THEN undefined ELSE Ok(h, Raise("TypeError"))
         [] name \in {"__code__", "__class__"} -> Ok(h, Raise("TypeError"))
         [] name \in {"__closure__", "__globals__", "__builtins__"} -> Ok(h, Raise("AttributeError"))
         [] OTHER -> Ok(store(h, function.dict, setitem(h[function.dict], name, value)), NoneV)

(***************************************************************************)
(* get_property / set_property (cli.py:343-355)                            *)
(***************************************************************************)
\* get_property with owner[name] in place of owner.get(name)
get_property_strict(h, owner, name) ==
    LET kind == type(h, owner)
    IN IF kind = "dict"
       THEN IF name \in DOMAIN h[owner.v].v THEN h[owner.v].v[name] ELSE Raise("KeyError")
       ELSE IF kind \in {"list", "tuple"}
       THEN With(LAMBDA index :
                    IF IsRaise(index) THEN index
                    ELSE IF place(items_of(h, owner), index.v) # 0
                    THEN items_of(h, owner)[place(items_of(h, owner), index.v)]
                    ELSE Raise("IndexError"),
                 int(name))
       ELSE getattr(h, owner, name)

get_property(h, owner, name) ==
    LET kind == type(h, owner)
    IN IF kind = "dict"
       THEN IF name \in DOMAIN h[owner.v].v THEN h[owner.v].v[name] ELSE NoneV
       ELSE IF kind \in {"list", "tuple"}
       THEN With(LAMBDA index :
                    IF IsRaise(index) THEN index
                    ELSE IF place(items_of(h, owner), index.v) # 0
                    THEN items_of(h, owner)[place(items_of(h, owner), index.v)]
                    ELSE Raise("IndexError"),
                 int(name))
       ELSE getattr(h, owner, name)

\* set_property: the heap afterwards, with None or the exception raised.  A
\* dict takes the item and a function the attribute; None, a number, a
\* string, a list, a tuple and a method-wrapper take nothing.  (A built-in
\* method takes a __module__, which lasts as long as the method object.)
set_property(h, owner, name, value) ==
    LET kind == type(h, owner)
    IN IF kind = "dict" THEN Ok(store(h, owner.v, setitem(h[owner.v], name, value)), NoneV)
       ELSE IF kind = "fn" THEN function_setattr(h, owner, name, value)
       ELSE IF name = "__class__" THEN Ok(h, Raise("TypeError"))
       ELSE IF kind = "method" /\ owner.type = "builtin" /\ name = "__module__" THEN undefined
       ELSE Ok(h, Raise("AttributeError"))

\* for name in names: owner = get_property(owner, name)
\* (cli.py:255-256, 274-275, 319-320).
RECURSIVE path_walk(_, _, _)
path_walk(h, owner, names) ==
    IF names = <<>> THEN owner
    ELSE With(LAMBDA next : IF IsRaise(next) THEN next ELSE path_walk(h, next, Tail(names)),
              get_property(h, owner, Head(names)))
(***************************************************************************)
(* dereference_value / normalize_value (cli.py:315-340)                    *)
(***************************************************************************)
\* isinstance(value, dict) and len(value) == 1 and
\* list(value.values())[0] is None
IsReference(value) ==
    /\ value.k = "dict"
    /\ Len(value.order) = 1
    /\ value.v[OnlyKey(value)] = NoneV

\* dereference_value (cli.py:315-328): a copy of the value is made first;
\* for a reference marker the object the scope holds is returned, itself
\* and no copy; the items of any other dict and of a list are replaced in
\* the copy, in order, by what dereference_value gives for them, up to the
\* first one that raises.
RECURSIVE dereference_value(_, _, _)
RECURSIVE dereference_dict(_, _, _, _, _)
RECURSIVE dereference_list(_, _, _, _, _)
\* for key, item in list(value.items()): value[key] = dereference_value(item, scope)
dereference_dict(h, address, names, snapshot, scope) ==
    IF names = <<>> THEN Ok(h, RefV(address))
    ELSE With(LAMBDA item :
                IF IsRaise(item.v) THEN item
                ELSE dereference_dict(store(item.h, address, setitem(item.h[address], Head(names), item.v)),
                                      address, Tail(names), snapshot, scope),
              dereference_value(h, snapshot[Head(names)], scope))
\* for index, item in enumerate(list(value)): value[index] = dereference_value(item, scope)
dereference_list(h, address, snapshot, i, scope) ==
    IF i > Len(snapshot) THEN Ok(h, RefV(address))
    ELSE With(LAMBDA item :
                IF IsRaise(item.v) THEN item
                ELSE dereference_list(store(item.h, address, [item.h[address] EXCEPT !.v[i] = item.v]),
                                      address, snapshot, i + 1, scope),
              dereference_value(h, snapshot[i], scope))
dereference_value(h, value, scope) ==
    With(LAMBDA copy :
            IF type(copy.h, copy.v) \notin {"dict", "list"} THEN copy
            ELSE With(LAMBDA object :
                        IF IsReference(object)
                        THEN Ok(copy.h, path_walk(copy.h, scope, split(OnlyKey(object))))
                        ELSE IF object.k = "dict"
                        THEN dereference_dict(copy.h, copy.v.v, object.order, object.v, scope)
                        ELSE dereference_list(copy.h, copy.v.v, object.v, 1, scope),
                      copy.h[copy.v.v]),
         deepcopy(h, value))

\* normalize_value: a tuple gives a new list of its items, which are left
\* as they are; a dict and a list are changed in place, item by item, and
\* returned.  active maps the dicts and lists the recursion is inside of to
\* the heap it entered them with: an object that holds itself is entered
\* again and again, each lap changing what the lap before left for it,
\* until a lap finds nothing to change, from where the recursion goes on
\* unchanged until the interpreter ends it with RecursionError.
RECURSIVE normalize_value(_, _, _)
RECURSIVE normalize_dict(_, _, _, _)
RECURSIVE normalize_list(_, _, _, _, _)
\* for key, item in value.items(): value[key] = normalize_value(item)
normalize_dict(h, address, names, active) ==
    IF names = <<>> THEN Ok(h, RefV(address))
    ELSE With(LAMBDA item :
                IF IsRaise(item.v) THEN item
                ELSE normalize_dict(store(item.h, address, setitem(item.h[address], Head(names), item.v)),
                                    address, Tail(names), active),
              normalize_value(h, h[address].v[Head(names)], active))
\* for index, item in enumerate(list(value)): value[index] = normalize_value(item)
normalize_list(h, address, snapshot, i, active) ==
    IF i > Len(snapshot) THEN Ok(h, RefV(address))
    ELSE With(LAMBDA item :
                IF IsRaise(item.v) THEN item
                ELSE normalize_list(store(item.h, address, [item.h[address] EXCEPT !.v[i] = item.v]),
                                    address, snapshot, i + 1, active),
              normalize_value(h, snapshot[i], active))
normalize_value(h, value, active) ==
    IF value.k = "tuple" THEN alloc(h, ListV(value.v))
    ELSE IF type(h, value) \notin {"dict", "list"} THEN Ok(h, value)
    ELSE IF value.v \in DOMAIN active /\ active[value.v] = h THEN Ok(h, Raise("RecursionError"))
    ELSE With(LAMBDA entered :
                IF h[value.v].k = "dict" THEN normalize_dict(h, value.v, h[value.v].order, entered)
                ELSE normalize_list(h, value.v, h[value.v].v, 1, entered),
              [a \in DOMAIN active \cup {value.v} |-> IF a = value.v THEN h ELSE active[a]])

(***************************************************************************)
(* result == feature['result'] (cli.py:281) and json.dumps (cli.py:288,    *)
(* 296)                                                                    *)
(***************************************************************************)
\* The C function behind a built-in method, named after one of the methods
\* it implements: conjugate, __trunc__, __floor__ and __ceil__ of a number
\* are one function, and every other method has a function of its own.
implementation(method) ==
    IF /\ method.type = "builtin"
       /\ method.self.k \in {"bool", "int"}
       /\ method.v \in {"conjugate", "__trunc__", "__floor__", "__ceil__"}
    THEN "conjugate"
    ELSE method.v

\* Whether two methods are equal: they are when they are bound to the same
\* object and are the same function (for a built-in method) or the same
\* slot (for a method-wrapper).  None, True, False and the small numbers are
\* one object each; whether two equal strings, large numbers, tuples or
\* methods are one object is not told by their value.
method_equals(a, b) ==
    IF implementation(a) # implementation(b) \/ a.type # b.type \/ a.self # b.self THEN FALSE
    ELSE IF a.self.k \in {"none", "bool", "ref"} THEN TRUE
    ELSE IF a.self.k = "int" /\ a.self.v >= 0 - 5 /\ a.self.v <= 256 THEN TRUE
    ELSE undefined

\* a == b: BoolV, or RecursionError when the comparison does not end.
\* active holds the pairs of objects the comparison is inside of.  An
\* object equals itself without a look at its items.
RECURSIVE equals(_, _, _, _)
RECURSIVE equal_items(_, _, _, _)
RECURSIVE equal_keys(_, _, _, _, _)
\* two sequences of one length, up to the first pair that differs
equal_items(h, a, b, active) ==
    IF a = <<>> THEN BoolV(TRUE)
    ELSE With(LAMBDA first :
                IF IsRaise(first) THEN first
                ELSE IF ~first.v THEN first
                ELSE equal_items(h, Tail(a), Tail(b), active),
              equals(h, Head(a), Head(b), active))
\* two dicts of one size, from the keys of the first in their order
equal_keys(h, names, a, b, active) ==
    IF names = <<>> THEN BoolV(TRUE)
    ELSE IF Head(names) \notin DOMAIN b THEN BoolV(FALSE)
    ELSE With(LAMBDA first :
                IF IsRaise(first) THEN first
                ELSE IF ~first.v THEN first
                ELSE equal_keys(h, Tail(names), a, b, active),
              equals(h, a[Head(names)], b[Head(names)], active))
equals(h, a, b, active) ==
    IF a.k = "ref" /\ b.k = "ref"
    THEN IF a.v = b.v THEN BoolV(TRUE)
         ELSE IF h[a.v].k # h[b.v].k \/ h[a.v].k = "fn" THEN BoolV(FALSE)
         ELSE IF <<a.v, b.v>> \in active THEN Raise("RecursionError")
         ELSE IF h[a.v].k = "list"
         THEN IF Len(h[a.v].v) # Len(h[b.v].v) THEN BoolV(FALSE)
              ELSE equal_items(h, h[a.v].v, h[b.v].v, active \cup {<<a.v, b.v>>})
         ELSE IF Len(h[a.v].order) # Len(h[b.v].order) THEN BoolV(FALSE)
              ELSE equal_keys(h, h[a.v].order, h[a.v].v, h[b.v].v, active \cup {<<a.v, b.v>>})
    ELSE IF a.k = "tuple" /\ b.k = "tuple"
    THEN With(LAMBDA shared :
                With(LAMBDA first :
                        IF IsRaise(first) \/ ~first.v THEN first ELSE BoolV(Len(a.v) = Len(b.v)),
                     equal_items(h, SubSeq(a.v, 1, shared), SubSeq(b.v, 1, shared), active)),
              IF Len(a.v) < Len(b.v) THEN Len(a.v) ELSE Len(b.v))
    ELSE IF a.k \in {"bool", "int"} /\ b.k \in {"bool", "int"} THEN BoolV(number(a) = number(b))
    ELSE IF a.k = "method" /\ b.k = "method" THEN BoolV(method_equals(a, b))
    ELSE IF a.k # b.k THEN BoolV(FALSE)
    ELSE BoolV(a.v = b.v)

\* The exception json.dumps(value) raises, "" when there is none: TypeError
\* for a function or a method, ValueError for a dict or a list that holds
\* itself.  active holds the objects the encoder is inside of.
RECURSIVE json_error(_, _, _)
RECURSIVE json_items(_, _, _)
json_items(h, items, active) ==
    IF items = <<>> THEN ""
    ELSE With(LAMBDA first : IF first # "" THEN first ELSE json_items(h, Tail(items), active),
              json_error(h, Head(items), active))
json_error(h, value, active) ==
    IF value.k = "tuple" THEN json_items(h, value.v, active)
    ELSE IF value.k = "method" THEN "TypeError"
    ELSE IF value.k # "ref" THEN ""
    ELSE IF h[value.v].k = "fn" THEN "TypeError"
    ELSE IF value.v \in active THEN "ValueError"
    ELSE IF h[value.v].k = "list" THEN json_items(h, h[value.v].v, active \cup {value.v})
    ELSE json_items(h, values_of(h[value.v]), active \cup {value.v})

(***************************************************************************)
(* What an object looks like from outside: the value as a tree, the        *)
(* objects in place of their addresses.  An object met inside itself is    *)
(* shown as the number of levels it lies above.                            *)
(***************************************************************************)
RECURSIVE view(_, _, _)
view(h, value, above) ==
    IF value.k = "tuple" THEN TupleV([i \in DOMAIN value.v |-> view(h, value.v[i], above)])
    ELSE IF value.k = "method" THEN [value EXCEPT !.self = view(h, value.self, above)]
    ELSE IF value.k # "ref" THEN value
    ELSE IF \E i \in DOMAIN above : above[i] = value.v
    THEN [k |-> "cycle", v |-> CHOOSE i \in DOMAIN above : above[i] = value.v]
    ELSE LET object == h[value.v]
             inside == <<value.v>> \o above
         IN IF object.k = "list" THEN ListV([i \in DOMAIN object.v |-> view(h, object.v[i], inside)])
            ELSE IF object.k = "dict"
            THEN Dict([key \in DOMAIN object.v |-> view(h, object.v[key], inside)], object.order)
            ELSE [k |-> "fn", v |-> object.v, name |-> object.name, qualname |-> object.qualname,
                  doc |-> view(h, object.doc, inside), module |-> view(h, object.module, inside),
                  defaults |-> view(h, object.defaults, inside),
                  kwdefaults |-> view(h, object.kwdefaults, inside),
                  attrs |-> view(h, RefV(object.dict), inside).v]
\* the object a value is, seen from outside
seen(h, value) == view(h, value, <<>>)
(***************************************************************************)
(* The package under test and the hook file, as the loader sees them.      *)
(* "mathlib" is                                                            *)
(*     def add(a, b): return a + b                                         *)
(*     def boom(): raise ValueError()                                      *)
(*     lst = [1, 2];  VERSION = '1.0'                                      *)
(* Its objects are there from the start, one each for the whole run.       *)
(***************************************************************************)
ModuleHeap ==
    << FnV("add", StrV("mathlib"), 2), Dict(<<>>, <<>>),
       FnV("boom", StrV("mathlib"), 4), Dict(<<>>, <<>>),
       ListV(<<IntV(1), IntV(2)>>) >>

\* The names no module, package or directory of the search path answers
\* to: the import of such a name, and of any name under it, raises
\* ImportError.
Absent == {"missing", "ERROR"}

\* get_module_attributes (cli.py:302-312): the public names of a module in
\* the order of dir(module), with their values; empty when the import
\* fails with ImportError, as it does for a name under an absent one and
\* for a name under mathlib, which is a module and no package.  What the
\* import of any other name gives, a module of the interpreter or of the
\* program among them, is not modelled.
get_module_attributes(module_name) ==
    IF module_name = "mathlib"
    THEN Dict([name \in {"VERSION", "add", "boom", "lst"} |->
                CASE name = "VERSION" -> StrV("1.0")
                  [] name = "add" -> RefV(1)
                  [] name = "boom" -> RefV(3)
                  [] name = "lst" -> RefV(5)],
              <<"VERSION", "add", "boom", "lst">>)
    ELSE IF Head(split(module_name)) \in Absent \cup {"mathlib"} THEN Dict(<<>>, <<>>)
    ELSE undefined

\* The exception importlib.import_module raises that is no ImportError and
\* so leaves get_module_attributes (cli.py:304-307): "" when there is none.
import_error(module_name) ==
    IF module_name.k # "str" THEN "AttributeError"
    ELSE IF module_name.v = "" THEN "ValueError"
    ELSE IF Head(module_name.v) = "." THEN "TypeError"
    ELSE ""

\* The names a packspec.py that defines  def double(a): return a + a  puts
\* in hookmap (cli.py:41-52), with the function as a new object; empty
\* when the directory holds no hook file.
hookmap(h, withHooks) ==
    IF withHooks
    THEN With(LAMBDA attributes :
                With(LAMBDA function :
                        Ok(function.h, Dict([name \in {"$double"} |-> function.v], <<"$double">>)),
                     alloc(attributes.h, FnV("double", NoneV, attributes.v.v))),
              alloc(h, Dict(<<>>, <<>>)))
    ELSE Ok(h, Dict(<<>>, <<>>))

\* a + b in Python; the sum of two lists is a new list of their items
plus(h, a, b) ==
    LET kinds == <<type(h, a), type(h, b)>>
    IN IF kinds[1] \in {"bool", "int"} /\ kinds[2] \in {"bool", "int"}
       THEN Ok(h, IntV(number(a) + number(b)))
       ELSE IF kinds = <<"str", "str">> THEN Ok(h, StrV(a.v \o b.v))
       ELSE IF kinds = <<"list", "list">> THEN alloc(h, ListV(h[a.v].v \o h[b.v].v))
       ELSE IF kinds = <<"tuple", "tuple">> THEN Ok(h, TupleV(a.v \o b.v))
       ELSE Ok(h, Raise("TypeError"))

\* The binding of the positional and the keyword arguments to the
\* parameters params; defaults is the __defaults__ of the function, whose
\* last item is the default of the last parameter.
bind(params, defaults, args, kwargs) ==
    LET names == {params[i] : i \in 1..Len(params)}
        positional == {params[i] : i \in 1..Len(args)}
        given == IF defaults.k = "tuple" THEN defaults.v ELSE <<>>
        \* the place of the default of the i-th parameter, 0 or less when it has none
        default(i) == Len(given) - Len(params) + i
    IN IF \/ Len(args) > Len(params)
          \/ \E key \in DOMAIN kwargs : key \notin names \ positional
          \/ \E i \in 1..Len(params) : i > Len(args) /\ params[i] \notin DOMAIN kwargs /\ default(i) < 1
       THEN Raise("TypeError")
       ELSE [k |-> "bound",
             v |-> [name \in names |->
                      LET i == CHOOSE j \in 1..Len(params) : params[j] = name
                      IN IF i <= Len(args) THEN args[i]
                         ELSE IF name \in DOMAIN kwargs THEN kwargs[name]
                         ELSE given[default(i)]]]

\* n.bit_length()
RECURSIVE bit_length(_)
bit_length(n) == IF n = 0 THEN 0 ELSE IF n < 0 THEN bit_length(0 - n) ELSE 1 + bit_length(n \div 2)

\* The call of a method of a built-in type without arguments; the methods
\* that are not listed are not modelled.
call_method(method) ==
    LET self == method.self
    IN IF method.type = "builtin" /\ self.k = "str"
       THEN CASE method.v = "upper" -> StrV(upper(self.v))
              [] method.v = "lower" -> StrV(lower(self.v))
              [] method.v = "isupper" -> BoolV(isupper(self.v))
              [] method.v = "islower" -> BoolV(islower(self.v))
              [] method.v = "isdigit" -> BoolV(isdigit(self.v))
              [] OTHER -> undefined
       ELSE IF method.type = "builtin" /\ self.k \in {"bool", "int"}
       THEN CASE method.v = "bit_length" -> IntV(bit_length(number(self)))
              [] method.v = "conjugate" -> IntV(number(self))
              [] OTHER -> undefined
       ELSE undefined

\* the methods of call_method, none of which takes an argument
TakesNothing(method) ==
    /\ method.type = "builtin"
    /\ \/ method.self.k = "str" /\ method.v \in {"upper", "lower", "isupper", "islower", "isdigit"}
       \/ method.self.k \in {"bool", "int"} /\ method.v \in {"bit_length", "conjugate"}

\* property(*args, **kwargs) for the items of args and of kwargs
RECURSIVE invoke(_, _, _, _)
invoke(h, property, args, kwargs) ==
    IF type(h, property) = "fn"
    THEN LET function == h[property.v]
         IN IF function.v = "boom"
            THEN With(LAMBDA bound : IF IsRaise(bound) THEN Ok(h, bound) ELSE Ok(h, Raise("ValueError")),
                      bind(<<>>, function.defaults, args, kwargs))
            ELSE IF function.v = "add"
            THEN With(LAMBDA bound :
                        IF IsRaise(bound) THEN Ok(h, bound) ELSE plus(h, bound.v["a"], bound.v["b"]),
                      bind(<<"a", "b">>, function.defaults, args, kwargs))
            ELSE With(LAMBDA bound :
                        IF IsRaise(bound) THEN Ok(h, bound) ELSE plus(h, bound.v["a"], bound.v["a"]),
                      bind(<<"a">>, function.defaults, args, kwargs))
    ELSE IF property.k = "method"
    THEN IF property.type = "wrapper" /\ property.v = "__call__" THEN invoke(h, property.self, args, kwargs)
         ELSE IF ~TakesNothing(property) THEN undefined
         ELSE IF args # <<>> \/ DOMAIN kwargs # {} THEN Ok(h, Raise("TypeError"))
         ELSE Ok(h, call_method(property))
    ELSE Ok(h, Raise("TypeError"))

\* the call of the resolved property with the positional and the keyword
\* arguments (cli.py:258): args is a list, and kwargs is whatever
\* dereference_value made of the keyword arguments
call_property(h, property, args, kwargs) ==
    IF type(h, kwargs) # "dict" THEN Ok(h, Raise("TypeError"))
    ELSE invoke(h, property, h[args.v].v, h[kwargs.v].v)

(***************************************************************************)
(* Raw entries of a specification file, as yaml.load returns them.  A      *)
(* string entry is given by the two groups of the comment pattern          *)
(* (cli.py:130), a mapping entry by the three groups of the left-side      *)
(* pattern (cli.py:140) and its value:                                     *)
(*   filters   the first group split at ':', <<>> when the group did not   *)
(*             take part in the match (an empty group splits to <<"">>)    *)
(*   text      the comment ("" when the pattern does not match)            *)
(*   assign    the second group ("" when absent)                           *)
(*   property  the third group without a trailing '==' ("" when absent);   *)
(*             eq tells whether the '==' was there                         *)
(***************************************************************************)
CommentEntry(filters, text) ==
    [type |-> "str", filters |-> filters, text |-> text,
     assign |-> "", property |-> "", eq |-> FALSE, right |-> NoneV]
MappingEntry(filters, assign, property, eq, right) ==
    [type |-> "map", filters |-> filters, text |-> "",
     assign |-> assign, property |-> property, eq |-> eq, right |-> right]

\* Python truth of a skip flag, kept as "None", "True", "False" or "" (the
\* empty string of an empty group).
Truthy(flag) == flag = "True"
Bool(b) == IF b THEN "True" ELSE "False"
\* a or b
Or(a, b) == IF Truthy(a) THEN a ELSE b

\* the flag without the negation: skip = 'py' not in filters
filter_skip_plain(filters) ==
    IF filters = <<>> THEN "None"
    ELSE IF filters = <<"">> THEN ""
    ELSE Bool(\A i \in 1..Len(filters) : filters[i] # "py")

\* if skip: skip = (filters[0] == 'not') == ('py' in filters)
\* (cli.py:132-134, 142-144); a group that is absent or empty is left as
\* it is.
filter_skip(filters) ==
    IF filters = <<>> THEN "None"
    ELSE IF filters = <<"">> THEN ""
    ELSE Bool((filters[1] = "not") = (\E i \in 1..Len(filters) : filters[i] = "py"))

\* for item in right (cli.py:159): a list and a tuple yield their elements,
\* a dict its keys in their order, a string its characters; None and
\* numbers are not iterable.
iterate(right) ==
    IF right.k \in {"list", "tuple"} THEN ListV(right.v)
    ELSE IF right.k = "dict" THEN ListV([i \in DOMAIN right.order |-> StrV(right.order[i])])
    ELSE IF right.k = "str" THEN ListV([i \in 1..Len(right.v) |-> StrV(char(right.v, i))])
    ELSE Raise("TypeError")

\* The loop over the items of a call's right side (cli.py:159-168), from an
\* accumulator [args, kwargs, result]; kwargs is the OrderedDict.
right_item(item, acc) ==
    LET single == item.k = "dict" /\ Cardinality(DOMAIN item.v) = 1
    IN IF single /\ OnlyKey(item) = "=="
       THEN [acc EXCEPT !.result = item.v["=="]]
       ELSE IF single /\ endswith(OnlyKey(item), "=")
       THEN [acc EXCEPT !.kwargs = setitem(@, SubSeq(OnlyKey(item), 1, Len(OnlyKey(item)) - 1),
                                           item.v[OnlyKey(item)])]
       ELSE [acc EXCEPT !.args = Append(acc.args, item)]

\* the right side read the older way: the last element is the expected
\* value, the others are the arguments
right_side_last(items, acc) ==
    IF items = <<>> THEN acc
    ELSE [acc EXCEPT !.args = SubSeq(items, 1, Len(items) - 1), !.result = items[Len(items)]]

RECURSIVE right_side(_, _)
right_side(items, acc) ==
    IF items = <<>> THEN acc
    ELSE With(LAMBDA next : right_side(Tail(items), next), right_item(Head(items), acc))

\* parse_feature (cli.py:126-195); the 'text' rendering (cli.py:170-183) is
\* display only and is left out.
parse_feature(feature) ==
    IF feature.type = "str"
    THEN IF feature.text = "" THEN Raise("AttributeError")
         ELSE [k |-> "feature", comment |-> feature.text, skip |-> filter_skip(feature.filters),
               call |-> FALSE, assign |-> "", property |-> "",
               args |-> ListV(<<>>), kwargs |-> Dict(<<>>, <<>>), result |-> NoneV]
    ELSE IF feature.type # "map" THEN Raise("AttributeError")
    ELSE IF feature.assign = "" /\ feature.property = "" THEN Raise("Exception")
    ELSE LET call == feature.property # "" /\ ~feature.eq
             items == iterate(feature.right)
         IN IF call /\ IsRaise(items) THEN items
            ELSE LET parsed == IF call
                               THEN right_side(items.v, [args |-> <<>>, kwargs |-> Dict(<<>>, <<>>),
                                                         result |-> NoneV])
                               ELSE [args |-> <<>>, kwargs |-> Dict(<<>>, <<>>), result |-> feature.right]
                 IN [k |-> "feature", comment |-> "", skip |-> filter_skip(feature.filters),
                     call |-> call, assign |-> feature.assign, property |-> feature.property,
                     args |-> ListV(parsed.args), kwargs |-> parsed.kwargs,
                     result |-> parsed.result]

(***************************************************************************)
(* parse_spec (cli.py:75-123)                                              *)
(***************************************************************************)
NoSpec == [k |-> "none", v |-> 0]

\* cli.py:82-88, on the copy of the value of the first entry; no step but
\* the loop over its items sees the package, so it is kept as a value of
\* the document
normalize_package(package) ==
    IF package.k = "str" THEN Dict([namespace \in {"default"} |-> ListV(<<package>>)], <<"default">>)
    ELSE IF package.k = "list" THEN Dict([namespace \in {"default"} |-> package], <<"default">>)
    ELSE IF package.k = "dict"
    THEN Dict([key \in DOMAIN package.v |->
                IF package.v[key].k = "list" THEN package.v[key] ELSE ListV(<<package.v[key]>>)],
              package.order)
    ELSE package

\* for module_name in module_names (cli.py:109-113), from the attributes the
\* variable held before the loop and the object namespace_scope names: the
\* heap and the attributes after the loop, or the exception that leaves it.
RECURSIVE module_attributes(_, _, _, _)
module_attributes(h, module_names, attributes, namespace_scope) ==
    IF module_names = <<>> THEN [k |-> "ok", h |-> h, attributes |-> attributes]
    ELSE IF import_error(Head(module_names)) # "" THEN Raise(import_error(Head(module_names)))
    ELSE With(LAMBDA found :
                IF type(h, namespace_scope) # "dict" THEN Raise("AttributeError")
                ELSE With(LAMBDA updated :
                            IF found.order # <<>>
                            THEN [k |-> "ok", h |-> updated, attributes |-> found]
                            ELSE module_attributes(updated, Tail(module_names), found, namespace_scope),
                          store(h, namespace_scope.v, update(h[namespace_scope.v], found.v, found.order))),
              get_module_attributes(Head(module_names).v))

\* namespace_scope = scope, or scope.setdefault(namespace, {})
\* (cli.py:106-108)
namespace_of(h, scope, namespace) ==
    IF namespace = "default" THEN Ok(h, scope)
    ELSE IF namespace \in DOMAIN h[scope.v].v THEN Ok(h, h[scope.v].v[namespace])
    ELSE With(LAMBDA new : Ok(store(new.h, scope.v, setitem(new.h[scope.v], namespace, new.v)), new.v),
              alloc(h, Dict(<<>>, <<>>)))

\* for namespace, module_names in package.items() (cli.py:104-116), from the
\* namespaces still to come and st = [scope, attributes, packages]: the
\* heap, the scope and the module names the loop ends with, or the
\* exception that leaves it.
RECURSIVE build_scope(_, _, _, _)
build_scope(h, namespaces, package, st) ==
    IF namespaces = <<>> THEN [k |-> "ok", h |-> h, scope |-> st.scope, packages |-> st.packages]
    ELSE With(LAMBDA packages :
                With(LAMBDA namespace_scope :
                        With(LAMBDA loop :
                                IF IsRaise(loop) THEN loop
                                ELSE IF loop.attributes.order = <<>>
                                THEN \* scope = {}
                                     With(LAMBDA new : [k |-> "ok", h |-> new.h, scope |-> new.v,
                                                        packages |-> packages],
                                          alloc(loop.h, Dict(<<>>, <<>>)))
                                ELSE build_scope(loop.h, Tail(namespaces), package,
                                        [scope |-> st.scope, attributes |-> loop.attributes,
                                         packages |-> packages]),
                             module_attributes(namespace_scope.h, package[Head(namespaces)].v,
                                               st.attributes, namespace_scope.v)),
                     namespace_of(h, st.scope, Head(namespaces))),
              st.packages \o package[Head(namespaces)].v)

\* '/'.join(sorted(packages)) (cli.py:117); a name that is not a string
\* raises TypeError
package_name(packages) ==
    IF \E i \in DOMAIN packages : packages[i].k # "str" THEN Raise("TypeError")
    ELSE StrV(join(SortSeq([i \in DOMAIN packages |-> packages[i].v], Before)))

\* the exception of the first item of a list that raises
FirstRaise(items) ==
    LET bad == {i \in DOMAIN items : IsRaise(items[i])}
    IN items[CHOOSE i \in bad : \A j \in bad : i <= j]

\* The dict parse_feature returns (cli.py:134, 185-195), as an object of
\* the heap.  Its items args, kwargs and result, the ones test_feature
\* assigns (cli.py:245-247), are the items of the object at the address
\* at, and their values are the objects yaml.load built; the items no
\* step assigns once the loader is done are kept beside the address.  The
\* dict of a comment has none of the three.
Record(feature, at) ==
    [k |-> "feature", comment |-> feature.comment, skip |-> feature.skip, call |-> feature.call,
     assign |-> feature.assign, property |-> feature.property, at |-> at]
record_of(h, feature) ==
    IF feature.comment # ""
    THEN With(LAMBDA object : Ok(object.h, Record(feature, object.v.v)), alloc(h, Dict(<<>>, <<>>)))
    ELSE With(LAMBDA args :
            With(LAMBDA kwargs :
                With(LAMBDA result :
                    With(LAMBDA object : Ok(object.h, Record(feature, object.v.v)),
                         alloc(result.h, Dict(from_items(<<"args", "kwargs", "result">>,
                                                         <<args.v, kwargs.v, result.v>>),
                                              <<"args", "kwargs", "result">>))),
                     construct(kwargs.h, feature.result)),
                 construct(args.h, feature.kwargs)),
             construct(h, feature.args))

\* features.append(feature) for every entry (cli.py:96-98)
RECURSIVE records_of(_, _, _)
records_of(h, features, done) ==
    IF features = <<>> THEN Ok(h, done)
    ELSE With(LAMBDA next : records_of(next.h, Tail(features), Append(done, next.v)),
              record_of(h, Head(features)))

\* The record as the document shows it: the items of the object in place
\* of its address, each seen from outside.
shown(h, feature) ==
    LET items == h[feature.at].v
    IN [k |-> "feature", comment |-> feature.comment, skip |-> feature.skip, call |-> feature.call,
        assign |-> feature.assign, property |-> feature.property,
        args |-> IF "args" \in DOMAIN items THEN seen(h, items["args"]) ELSE ListV(<<>>),
        kwargs |-> IF "kwargs" \in DOMAIN items THEN seen(h, items["kwargs"]) ELSE Dict(<<>>, <<>>),
        result |-> IF "result" \in DOMAIN items THEN seen(h, items["result"]) ELSE NoneV]

\* The part of parse_spec after the package entry was accepted
\* (cli.py:94-123): the heap with the spec, or with the exception raised.
spec_of(h, package, features) ==
    IF \E i \in DOMAIN features : IsRaise(features[i]) THEN Ok(h, FirstRaise(features))
    ELSE IF package.k # "dict" THEN Ok(h, Raise("AttributeError"))
    ELSE With(LAMBDA records :
            With(LAMBDA scope :
                With(LAMBDA built :
                        IF IsRaise(built) THEN Ok(h, built)
                        ELSE With(LAMBDA name :
                                    IF IsRaise(name) THEN Ok(h, name)
                                    ELSE Ok(built.h, [k |-> "spec", package |-> name.v,
                                                      features |-> records.v, scope |-> built.scope]),
                                  package_name(built.packages)),
                     build_scope(scope.h, package.order, package.v,
                                 [scope |-> scope.v, attributes |-> Dict(<<>>, <<>>), packages |-> <<>>])),
                 alloc(records.h, Dict(<<>>, <<>>))),
              records_of(h, features, <<>>))

parse_spec(h, contents) ==
    IF contents = <<>> THEN Ok(h, NoSpec)
    ELSE With(LAMBDA first :
                IF IsRaise(first) THEN Ok(h, NoSpec)
                ELSE IF first.comment # "" THEN Ok(h, NoSpec)
                ELSE IF first.assign # "PACKAGE" \/ Truthy(first.skip) THEN Ok(h, NoSpec)
                ELSE With(LAMBDA features : spec_of(h, normalize_package(first.result), features),
                          [i \in DOMAIN contents |-> parse_feature(contents[i])]),
              parse_feature(contents[1]))

(***************************************************************************)
(* parse_specs (cli.py:22-72)                                              *)
(***************************************************************************)
\* cli.py:34-38; specmap maps a package name to its spec
add_spec(h, specmap, spec) ==
    IF spec.package \notin DOMAIN specmap
    THEN Ok(h, [key \in DOMAIN specmap \cup {spec.package} |->
                    IF key = spec.package THEN spec ELSE specmap[key]])
    ELSE Ok(store(h, specmap[spec.package].scope.v,
                  update(h[specmap[spec.package].scope.v], h[spec.scope.v].v, h[spec.scope.v].order)),
            [specmap EXCEPT ![spec.package].features = @ \o spec.features])

\* The loop over the .yml files in discovery order (cli.py:25-38).
RECURSIVE load_specs(_, _, _)
load_specs(h, contents, specmap) ==
    IF contents = <<>> THEN Ok(h, [k |-> "map", v |-> specmap])
    ELSE With(LAMBDA spec :
                IF IsRaise(spec.v) THEN spec
                ELSE IF spec.v.k = "none" THEN load_specs(h, Tail(contents), specmap)
                ELSE With(LAMBDA next : load_specs(next.h, Tail(contents), next.v),
                          add_spec(spec.h, specmap, spec.v)),
              parse_spec(h, Head(contents)))

\* del spec['features'][index] on the list as it is now; index is 0-based.
delete_at(list, index) ==
    IF index >= Len(list) THEN Raise("IndexError")
    ELSE [k |-> "list", v |-> SubSeq(list, 1, index) \o SubSeq(list, index + 2, Len(list))]

\* The loop of cli.py:60-69 over the snapshot list(enumerate(features)),
\* from position i (1-based).  st.live holds, for each entry still in
\* spec['features'], its position in the snapshot; st.flags the skip flag
\* written back to each snapshot entry.
\* result_step with a feature's own filter taking the place of the
\* inherited flag
result_step_own(feature, index, st) ==
    LET deleted == IF feature.assign = "PACKAGE" /\ index # 0
                   THEN delete_at(st.live, index)
                   ELSE [k |-> "list", v |-> st.live]
        skip == IF feature.comment # "" THEN feature.skip ELSE st.skip
    IN IF IsRaise(deleted) THEN deleted
       ELSE [k |-> "state",
             live |-> deleted.v,
             skip |-> skip,
             features |-> st.features + 1,
             comments |-> st.comments + (IF feature.comment # "" THEN 1 ELSE 0),
             tests |-> st.tests + (IF feature.comment # "" THEN 0 ELSE 1),
             flags |-> Append(st.flags, IF feature.skip # "None" THEN feature.skip ELSE skip)]

result_step(feature, index, st) ==
    LET deleted == IF feature.assign = "PACKAGE" /\ index # 0
                   THEN delete_at(st.live, index)
                   ELSE [k |-> "list", v |-> st.live]
        skip == IF feature.comment # "" THEN feature.skip ELSE st.skip
    IN IF IsRaise(deleted) THEN deleted
       ELSE [k |-> "state",
             live |-> deleted.v,
             skip |-> skip,
             features |-> st.features + 1,
             comments |-> st.comments + (IF feature.comment # "" THEN 1 ELSE 0),
             tests |-> st.tests + (IF feature.comment # "" THEN 0 ELSE 1),
             flags |-> Append(st.flags, Or(skip, feature.skip))]

RECURSIVE result_loop(_, _, _)
result_loop(snapshot, i, st) ==
    IF i > Len(snapshot) THEN st
    ELSE With(LAMBDA next : IF IsRaise(next) THEN next ELSE result_loop(snapshot, i + 1, next),
              result_step(snapshot[i], i - 1, st))


\* The body of  for spec in specs  (cli.py:56-70): the heap, in which the
\* scope has taken the hooks, with the spec.
finished(h, spec, hooked, st) ==
    IF IsRaise(st) THEN Ok(h, st)
    ELSE Ok(store(h, spec.scope.v, update(h[spec.scope.v], hooked.v, hooked.order)),
            [k |-> "spec",
             package |-> spec.package,
             features |-> [j \in DOMAIN st.live |->
                             [spec.features[st.live[j]] EXCEPT !.skip = st.flags[st.live[j]]]],
             scope |-> spec.scope,
             ready |-> h[spec.scope.v].order # <<>>,
             stats |-> [features |-> st.features, comments |-> st.comments, tests |-> st.tests]])

finish_spec(h, spec, hooked) ==
    With(LAMBDA st : finished(h, spec, hooked, st),
         result_loop(spec.features, 1,
            [k |-> "state", live |-> [i \in DOMAIN spec.features |-> i], skip |-> "False",
             features |-> 0, comments |-> 0, tests |-> 0, flags |-> <<>>]))

\* specs = [specmap[package] for package in sorted(specmap)] and the loop
\* over them (cli.py:55-70): the list of specs, or the exception that
\* leaves the loop.
RECURSIVE sorted_specs(_, _, _, _, _)
sorted_specs(h, packages, specmap, hooked, done) ==
    IF packages = <<>> THEN Ok(h, [k |-> "list", v |-> done])
    ELSE With(LAMBDA spec :
                IF IsRaise(spec.v) THEN spec
                ELSE sorted_specs(spec.h, Tail(packages), specmap, hooked, Append(done, spec.v)),
              finish_spec(h, specmap[Head(packages)], hooked))

\* parse_specs: the heap with the list of specs, or with the exception
\* that leaves it.
parse_specs(h, contents, withHooks) ==
    With(LAMBDA loaded :
            IF IsRaise(loaded.v) THEN loaded
            ELSE With(LAMBDA hooked :
                        sorted_specs(hooked.h, sorted(DOMAIN loaded.v.v), loaded.v.v, hooked.v, <<>>),
                      hookmap(loaded.h, withHooks)),
         load_specs(h, contents, <<>>))

(***************************************************************************)
(* test_feature (cli.py:226-299)                                           *)
(***************************************************************************)
\* Execute (cli.py:249-264): the heap afterwards, the result, and whether an
\* exception was caught.  What normalize_value changed before an exception
\* stays changed.
execute(h, feature, args, kwargs, expected, scope) ==
    IF feature.property = "" THEN [h |-> h, result |-> expected, raised |-> FALSE]
    ELSE With(LAMBDA property :
                IF IsRaise(property) THEN [h |-> h, result |-> ERROR, raised |-> TRUE]
                ELSE With(LAMBDA value :
                            IF IsRaise(value.v) THEN [h |-> value.h, result |-> ERROR, raised |-> TRUE]
                            ELSE With(LAMBDA normal :
                                        IF IsRaise(normal.v)
                                        THEN [h |-> normal.h, result |-> ERROR, raised |-> TRUE]
                                        ELSE [h |-> normal.h, result |-> normal.v, raised |-> FALSE],
                                      normalize_value(value.h, value.v, <<>>)),
                          IF feature.call THEN call_property(h, property, args, kwargs)
                          ELSE Ok(h, property)),
              path_walk(h, scope, split(feature.property)))

\* what the assign step gives: the heap, the result, and the exception it
\* recorded ("" when none)
Assigned(h, result, exception) == [k |-> "ok", h |-> h, result |-> result, exception |-> exception]

\* assign_result without the case of cli.py:268-270
assign_ready(h, feature, scope, ready, result) ==
    IF feature.assign = "" THEN Assigned(h, result, "")
    ELSE LET names == split(feature.assign)
             front == SubSeq(names, 1, Len(names) - 1)
             name == names[Len(names)]
         IN With(LAMBDA owner :
                    With(LAMBDA current :
                            IF IsRaise(current) THEN current
                            ELSE IF current # NoneV /\ isupper(name) THEN Raise("Exception")
                            ELSE With(LAMBDA updated :
                                        IF IsRaise(updated.v) THEN updated.v
                                        ELSE Assigned(updated.h, result, ""),
                                      set_property(h, owner, name, result)),
                         IF IsRaise(owner) THEN owner ELSE get_property(h, owner, name)),
                 path_walk(h, scope, front))

\* Assign (cli.py:266-278): Assigned, or the exception that leaves
\* test_feature.
assign_result(h, feature, scope, ready, result) ==
    IF feature.assign = "" THEN Assigned(h, result, "")
    ELSE IF feature.assign = "PACKAGE" /\ ~ready THEN Assigned(h, ERROR, "ImportError")
    ELSE LET names == split(feature.assign)
             front == SubSeq(names, 1, Len(names) - 1)
             name == names[Len(names)]
         IN With(LAMBDA owner :
                    With(LAMBDA current :
                            IF IsRaise(current) THEN current
                            ELSE IF current # NoneV /\ isupper(name) THEN Raise("Exception")
                            ELSE With(LAMBDA updated :
                                        IF IsRaise(updated.v) THEN updated.v
                                        ELSE Assigned(updated.h, result, ""),
                                      set_property(h, owner, name, result)),
                         IF IsRaise(owner) THEN owner ELSE get_property(h, owner, name)),
                 path_walk(h, scope, front))

\* compare without the null case
compare_strict(h, result, expected) == equals(h, result, expected, {})

\* compare with a null expected value taking every result
compare_any(h, result, expected) ==
    IF expected # NoneV THEN equals(h, result, expected, {}) ELSE BoolV(TRUE)

\* Compare (cli.py:281): BoolV, or the exception of the comparison
compare(h, result, expected) ==
    IF expected # NoneV THEN equals(h, result, expected, {}) ELSE BoolV(result # ERROR)

\* The exception that leaves the message of a failure (cli.py:287-296), ""
\* when there is none: json.dumps(result) is guarded against TypeError
\* alone, and json.dumps(feature['result']) is not guarded; the latter is
\* reached when no exception was recorded.
failure_message(h, result, expected, exception) ==
    IF json_error(h, result, {}) = "ValueError" THEN "ValueError"
    ELSE IF exception THEN ""
    ELSE json_error(h, expected, {})

\* The values a feature is executed with, as dereference_value gave them.
Given(args, kwargs, expected) == [args |-> args, kwargs |-> kwargs, expected |-> expected]
NotGiven == Given(NoneV, NoneV, NoneV)

\* What test_feature leaves behind: how it ended (kind: "comment",
\* "skipped", "executed", or "fatal" when an exception leaves it, with the
\* step it left from), the value it returned, and the heap afterwards;
\* seen from outside, the scope afterwards, the values it was executed
\* with as they were before the execution, the result, and the expected
\* value as it was when the two were compared.
Outcome(kind, ret, h, scope, given, raised, result, expected, exception, step) ==
    [kind |-> kind, ret |-> ret, h |-> h, scope |-> seen(h, scope).v,
     args |-> given.args, kwargs |-> given.kwargs, expected |-> given.expected,
     raised |-> raised, result |-> seen(h, result), compared |-> seen(h, expected),
     exception |-> exception, step |-> step]

\* cli.py:249-299, from the dereferenced arguments and expected value
run_feature(h, feature, scope, ready, args, kwargs, expected) ==
    With(LAMBDA given :
        With(LAMBDA executed :
            With(LAMBDA assigned :
                IF IsRaise(assigned)
                THEN Outcome("fatal", FALSE, executed.h, scope, given, executed.raised,
                             executed.result, expected, assigned.v, "assign")
                ELSE With(LAMBDA verdict :
                        IF IsRaise(verdict)
                        THEN Outcome("fatal", FALSE, assigned.h, scope, given, executed.raised,
                                     assigned.result, expected, verdict.v, "compare")
                        ELSE With(LAMBDA failure :
                                IF ~verdict.v /\ failure # ""
                                THEN Outcome("fatal", FALSE, assigned.h, scope, given, executed.raised,
                                             assigned.result, expected, failure, "message")
                                ELSE Outcome("executed", verdict.v, assigned.h, scope, given,
                                             executed.raised, assigned.result, expected, "", ""),
                             IF verdict.v THEN ""
                             ELSE failure_message(assigned.h, assigned.result, expected,
                                                  executed.raised \/ assigned.exception # "")),
                     compare(assigned.h, assigned.result, expected)),
                 assign_result(executed.h, feature, scope, ready, executed.result)),
             execute(h, feature, args, kwargs, expected, scope)),
         Given(seen(h, args), seen(h, kwargs), seen(h, expected)))

\* The three values of cli.py:244-247 in the order they are dereferenced
\* in; the first exception ends the step.
Dereferenced(h, args, kwargs, result) == [h |-> h, args |-> args, kwargs |-> kwargs, result |-> result]

\* feature[name] = dereference_value(feature[name], scope)
dereference_item(h, feature, name, scope) ==
    With(LAMBDA value :
            IF IsRaise(value.v) THEN value
            ELSE Ok(store(value.h, feature.at, setitem(value.h[feature.at], name, value.v)), value.v),
         dereference_value(h, h[feature.at].v[name], scope))
\* feature[name], left as it is
kept_item(h, feature, name) == Ok(h, h[feature.at].v[name])

\* dereferenced against a scope that holds what the loader put in it
dereferenced_early(h, feature, scope) ==
    With(LAMBDA early :
        With(LAMBDA args :
            IF IsRaise(args.v) THEN Dereferenced(args.h, args.v, NoneV, NoneV)
            ELSE With(LAMBDA kwargs :
                    IF IsRaise(kwargs.v) THEN Dereferenced(kwargs.h, args.v, kwargs.v, NoneV)
                    ELSE With(LAMBDA result : Dereferenced(result.h, args.v, kwargs.v, result.v),
                              dereference_item(kwargs.h, feature, "result", early.v)),
                      IF feature.call THEN dereference_item(args.h, feature, "kwargs", early.v)
                      ELSE kept_item(args.h, feature, "kwargs")),
             IF feature.call THEN dereference_item(early.h, feature, "args", early.v)
             ELSE kept_item(early.h, feature, "args")),
         alloc(h, get_module_attributes("mathlib")))

\* cli.py:244-247, on the record test_feature works on
dereferenced(h, feature, scope) ==
    With(LAMBDA args :
        IF IsRaise(args.v) THEN Dereferenced(args.h, args.v, NoneV, NoneV)
        ELSE With(LAMBDA kwargs :
                IF IsRaise(kwargs.v) THEN Dereferenced(kwargs.h, args.v, kwargs.v, NoneV)
                ELSE With(LAMBDA result : Dereferenced(result.h, args.v, kwargs.v, result.v),
                          dereference_item(kwargs.h, feature, "result", scope)),
                  IF feature.call THEN dereference_item(args.h, feature, "kwargs", scope)
                  ELSE kept_item(args.h, feature, "kwargs")),
         IF feature.call THEN dereference_item(h, feature, "args", scope)
         ELSE kept_item(h, feature, "args"))

\* the record of the document itself in place of a copy
shared_record(h, feature) == Ok(h, feature)

\* feature = copy.deepcopy(feature) (cli.py:243): the record the steps
\* after it work on, a new object with copies of the items
local_record(h, feature) ==
    With(LAMBDA copy : Ok(copy.h, [feature EXCEPT !.at = copy.v.v]), deepcopy(h, RefV(feature.at)))

\* the exception that left the dereference step, "" when there is none
dereference_error(d) ==
    IF IsRaise(d.args) THEN d.args.v
    ELSE IF IsRaise(d.kwargs) THEN d.kwargs.v
    ELSE IF IsRaise(d.result) THEN d.result.v
    ELSE ""

\* test_feature without the return of cli.py:236-240
test_feature_unskipped(h, feature, scope, ready) ==
    IF feature.comment # ""
    THEN Outcome("comment", TRUE, h, scope, NotGiven, FALSE, NoneV, NoneV, "", "")
    ELSE With(LAMBDA local :
            With(LAMBDA d :
                    IF dereference_error(d) # ""
                    THEN Outcome("fatal", FALSE, d.h, scope, NotGiven, FALSE, NoneV, NoneV,
                                 dereference_error(d), "dereference")
                    ELSE run_feature(d.h, feature, scope, ready, d.args, d.kwargs, d.result),
                 dereferenced(local.h, local.v, scope)),
              local_record(h, feature))

\* cli.py:226-299
test_feature(h, feature, scope, ready) ==
    IF feature.comment # ""
    THEN Outcome("comment", TRUE, h, scope, NotGiven, FALSE, NoneV, NoneV, "", "")
    ELSE IF Truthy(feature.skip)
    THEN Outcome("skipped", TRUE, h, scope, NotGiven, FALSE, NoneV, NoneV, "", "")
    ELSE With(LAMBDA local :
            With(LAMBDA d :
                    IF dereference_error(d) # ""
                    THEN Outcome("fatal", FALSE, d.h, scope, NotGiven, FALSE, NoneV, NoneV,
                                 dereference_error(d), "dereference")
                    ELSE run_feature(d.h, feature, scope, ready, d.args, d.kwargs, d.result),
                 dereferenced(local.h, local.v, scope)),
              local_record(h, feature))

(***************************************************************************)
(* The input universes: the files a run finds.                             *)
(***************************************************************************)
MaxBody == 2
MaxScopeBody == 2
MaxSkipBody == 3
MaxFiles == 3

BoundedSeq(S, n) == UNION {[1..m -> S] : m \in 0..n}

Key(key, value) == Dict([x \in {key} |-> value], <<key>>)
\* the dict of two items, in this order
Pair(key, value, other, item) ==
    Dict([x \in {key, other} |-> IF x = key THEN value ELSE item], <<key, other>>)
Ref(path) == Key(path, NoneV)
Feature(left, right) == MappingEntry(<<>>, "", left, FALSE, right)
Read(left, right) == MappingEntry(<<>>, "", left, TRUE, right)
Assign(target, left, right) == MappingEntry(<<>>, target, left, FALSE, right)

\* PACKAGE=: mathlib  /  PACKAGE=: missing
PackageEntry(package) == Assign("PACKAGE", "", package)
Mathlib == PackageEntry(StrV("mathlib"))
Missing == PackageEntry(StrV("missing"))
\* PACKAGE=: ERROR, a package of that name, which cannot be imported
ErrorNamed == PackageEntry(ERROR)

\* Entries about execution, errors and comparison.
ExecEntries ==
    { Feature("add", ListV(<<IntV(2), IntV(3), Key("==", IntV(5))>>)),
      Feature("add", ListV(<<IntV(2), IntV(3), IntV(5)>>)),
      Feature("add", ListV(<<IntV(2), IntV(3)>>)),
      Feature("add", ListV(<<IntV(2), Key("b=", IntV(3)), Key("==", IntV(5))>>)),
      Feature("add", ListV(<<IntV(2), IntV(3), Key("==", StrV("ANY"))>>)),
      Feature("add", ListV(<<Ref("lst.5"), IntV(1)>>)),
      Feature("add", ListV(<<Pair("b", Ref("lst.x"), "a", Ref("lst.5")), IntV(1)>>)),
      Feature("add", StrV("ab")),
      Feature("boom", ListV(<<Key("==", IntV(5))>>)),
      Feature("boom", ListV(<<Key("==", ERROR)>>)),
      Feature("boom", ListV(<<>>)),
      Feature("boom", ListV(<<Key("==", StrV("ANY"))>>)),
      Read("nope", NoneV),
      Read("nope", IntV(5)),
      Read("nope.sub", ERROR),
      Read("lst.5", ERROR),
      Read("lst.x", NoneV),
      Read("VERSION", StrV("1.0")),
      Assign("nope.K", "", IntV(1)),
      Read("VERSION", Ref("add")),
      Feature("VERSION.upper", ListV(<<Key("==", StrV("1.0"))>>)),
      Read("add.__name__", StrV("add")),
      Read("nope.__bool__", NoneV),
      Read("lst.0", BoolV(TRUE)),
      Read("lst.0.conjugate", Ref("lst.0.__trunc__")),
      MappingEntry(<<>>, "x", "nope", TRUE, NoneV),
      MappingEntry(<<>>, "x", "lst.5", TRUE, ERROR) }

\* The headers: the three package entries, and PACKAGE=nope==: ERROR and
\* PACKAGE=nope==: mathlib, the package entry with a property to read.
ExecFiles ==
    {<<<<header>> \o body>> :
        header \in {Mathlib, Missing, ErrorNamed,
                    MappingEntry(<<>>, "PACKAGE", "nope", TRUE, ERROR),
                    MappingEntry(<<>>, "PACKAGE", "nope", TRUE, StrV("mathlib"))},
        body \in BoundedSeq(ExecEntries, MaxBody)}

\* Entries about the scope: assignments, constants, references, hooks.
ScopeEntries ==
    { Assign("x", "", IntV(1)),
      Assign("x", "", IntV(2)),
      Assign("K", "", IntV(1)),
      Assign("K", "", NoneV),
      Assign("K", "boom", ListV(<<>>)),
      Assign("y", "add", ListV(<<Ref("x"), Key("b=", Ref("x"))>>)),
      Assign("VERSION", "", StrV("2.0")),
      Assign("ns.K", "", IntV(1)),
      Assign("ns", "", IntV(7)),
      Assign("add.K", "", IntV(1)),
      Assign("t", "", ListV(<<TupleV(<<IntV(1)>>)>>)),
      Read("t", ListV(<<ListV(<<IntV(1)>>)>>)),
      MappingEntry(<<"js">>, "x", "", FALSE, IntV(1)),
      MappingEntry(<<"js">>, "K", "", FALSE, IntV(2)),
      Feature("add", ListV(<<Ref("x"), IntV(1), Key("==", IntV(2))>>)),
      Feature("$double", ListV(<<Ref("x"), Key("==", IntV(2))>>)),
      Read("x", Ref("K")),
      Read("ns.K", IntV(1)),
      CommentEntry(<<>>, "note"),
      Assign("K", "", ListV(<<TupleV(<<IntV(1)>>)>>)),
      MappingEntry(<<>>, "K", "K", TRUE, NoneV),
      Assign("K", "", Ref("ns")),
      Assign("x", "", Ref("add")),
      Assign("x.K", "", IntV(1)),
      Assign("add.__name__", "", IntV(5)),
      Assign("K", "", Key("a", IntV(1))),
      Assign("K.a", "", IntV(2)) }

\* The headers: the three package entries and PACKAGE=: {ns: mathlib}; and
\* PACKAGE=: {default: mathlib, ns: missing} with at most one entry.
ScopeFiles ==
    {<<<<header>> \o body>> :
        header \in {Mathlib, Missing, ErrorNamed, PackageEntry(Key("ns", StrV("mathlib")))},
        body \in BoundedSeq(ScopeEntries, MaxScopeBody)}
    \cup {<<<<PackageEntry(Pair("default", StrV("mathlib"), "ns", StrV("missing")))>> \o body>> :
             body \in BoundedSeq(ScopeEntries, 1)}

\* Entries about filters: comments and features, with and without tags.
SkipEntries ==
    { CommentEntry(<<>>, "note"),
      CommentEntry(<<"js">>, "note"),
      CommentEntry(<<"py">>, "note"),
      Read("VERSION", StrV("1.0")),
      MappingEntry(<<"py">>, "", "VERSION", TRUE, StrV("2.0")),
      MappingEntry(<<"js">>, "", "VERSION", TRUE, StrV("2.0")),
      MappingEntry(<<"not", "py">>, "", "VERSION", TRUE, StrV("2.0")),
      MappingEntry(<<"not", "js">>, "", "VERSION", TRUE, StrV("1.0")),
      MappingEntry(<<"js", "py">>, "", "VERSION", TRUE, StrV("1.0")),
      MappingEntry(<<"not", "js", "py">>, "", "VERSION", TRUE, StrV("2.0")),
      CommentEntry(<<"not", "py">>, "note"),
      CommentEntry(<<"">>, "note"),
      MappingEntry(<<"">>, "", "VERSION", TRUE, StrV("2.0")) }

SkipFiles == {<<<<Mathlib>> \o body>> : body \in BoundedSeq(SkipEntries, MaxSkipBody)}

\* Whole files: with and without the package entry, passing and failing,
\* with a malformed entry, of a package that cannot be imported.
Pass == Read("VERSION", StrV("1.0"))
Fail == Read("VERSION", StrV("2.0"))

FileShapes ==
    { <<Mathlib>>,
      <<Mathlib, Pass>>,
      <<Mathlib, Fail>>,
      <<Mathlib, CommentEntry(<<"js">>, "note"), Fail>>,
      <<Mathlib, MappingEntry(<<>>, "", "", FALSE, NoneV)>>,
      <<Pass>>,
      <<Missing>>,
      <<Missing, Pass>>,
      <<ErrorNamed>>,
      <<ErrorNamed, Fail>> }

ManyFiles == BoundedSeq(FileShapes, MaxFiles) \ {<<>>}

(***************************************************************************)
(* The run: cli (cli.py:360-366), test_specs (cli.py:198-206), test_spec   *)
(* (cli.py:209-223), one step per call of test_feature.                    *)
(***************************************************************************)
\* the fields of a record but one
Without(record, field) == [name \in DOMAIN record \ {field} |-> record[name]]

NoLast ==
    [spec |-> 0, index |-> 0, feature |-> parse_feature(CommentEntry(<<>>, "none")),
     heap |-> <<>>, root |-> NoneV, before |-> <<>>, ready |-> FALSE,
     outcome |-> Without(Outcome("none", FALSE, <<Dict(<<>>, <<>>)>>, RefV(1), NotGiven, FALSE, NoneV,
                                 NoneV, "", ""), "h")]

InitWith(contents, withHooks) ==
    /\ files \in contents
    /\ hooks \in withHooks
    /\ pc = "load"
    /\ heap = ModuleHeap
    /\ specs = <<>>
    /\ si = 0
    /\ fi = 0
    /\ passed = 0
    /\ success = TRUE
    /\ reports = <<>>
    /\ last = NoLast
    /\ error = ""

\* specs = parse_specs(path); test_specs starts with success = True.
ParseSpecs ==
    /\ pc = "load"
    /\ \E result \in {parse_specs(heap, files, hooks)} :
          IF IsRaise(result.v)
          THEN /\ pc' = "crashed"
               /\ error' = result.v.v
               /\ UNCHANGED <<heap, specs, si, fi>>
          ELSE /\ pc' = "run"
               /\ heap' = result.h
               /\ specs' = result.v.v
               /\ si' = 1
               /\ fi' = 1
               /\ UNCHANGED error
    /\ UNCHANGED <<files, hooks, passed, success, reports, last>>

\* passed += test_feature(feature, spec['scope'], spec['ready'])
TestFeature ==
    /\ pc = "run"
    /\ si <= Len(specs)
    /\ fi <= Len(specs[si].features)
    /\ \E spec \in {specs[si]} :
       \E outcome \in {test_feature(heap, spec.features[fi], spec.scope, spec.ready)} :
          /\ last' = [spec |-> si, index |-> fi, feature |-> shown(heap, spec.features[fi]),
                      heap |-> heap, root |-> spec.scope, before |-> seen(heap, spec.scope).v,
                      ready |-> spec.ready, outcome |-> Without(outcome, "h")]
          /\ heap' = outcome.h
          /\ IF outcome.kind = "fatal"
             THEN /\ pc' = "crashed"
                  /\ error' = outcome.exception
                  /\ UNCHANGED <<fi, passed>>
             ELSE /\ fi' = fi + 1
                  /\ passed' = passed + (IF outcome.ret THEN 1 ELSE 0)
                  /\ UNCHANGED <<pc, error>>
    /\ UNCHANGED <<files, hooks, specs, si, success, reports>>

\* What test_spec prints and returns once the loop is over (cli.py:215-223).
report_legacy(spec, count) ==
    [package |-> spec.package, success |-> count = spec.stats.features, passed |-> count,
     numerator |-> count - spec.stats.comments - 1, denominator |-> spec.stats.tests - 1]

report(spec, count) ==
    [package |-> spec.package, success |-> count = spec.stats.features, passed |-> count,
     numerator |-> count - spec.stats.comments, denominator |-> spec.stats.tests]

\* the result of the latest document alone
only_spec_success(so_far, spec_success) == spec_success

\* success = success and spec_success (cli.py:205)
and_success(so_far, spec_success) == so_far /\ spec_success

\* The end of test_spec and  success = success and spec_success.
TestSpecEnd ==
    /\ pc = "run"
    /\ si <= Len(specs)
    /\ fi > Len(specs[si].features)
    /\ \E r \in {report(specs[si], passed)} :
          /\ reports' = Append(reports, r)
          /\ success' = and_success(success, r.success)
    /\ si' = si + 1
    /\ fi' = 1
    /\ passed' = 0
    /\ UNCHANGED <<files, hooks, pc, heap, specs, last, error>>

\* if not success: exit(1)
Exit ==
    /\ pc = "run"
    /\ si > Len(specs)
    /\ pc' = IF success THEN "exit0" ELSE "exit1"
    /\ UNCHANGED <<files, hooks, heap, specs, si, fi, passed, success, reports, last, error>>

Next == ParseSpecs \/ TestFeature \/ TestSpecEnd \/ Exit

\* One file of execution entries.
Init == InitWith(ExecFiles, {FALSE})
Spec == Init /\ [][Next]_vars

\* One file of scope entries, with and without a hook file.
InitScope == InitWith(ScopeFiles, BOOLEAN)
SpecScope == InitScope /\ [][Next]_vars

\* One file of filtered comments and features.
InitSkip == InitWith(SkipFiles, {FALSE})
SpecSkip == InitSkip /\ [][Next]_vars

\* Several files.
InitFiles == InitWith(ManyFiles, {FALSE})
SpecFiles == InitFiles /\ [][Next]_vars


(***************************************************************************)
(* Properties.  'last' is the latest call of test_feature: the feature,    *)
(* the heap and the scope it was given, and what the call did.             *)
(***************************************************************************)
\* the reserved literal ANY of an expected value, as a document writes it
ANY == StrV("ANY")

Called == last.spec # 0
Executed == Called /\ last.outcome.kind = "executed"

\* Whether two values, seen from outside, are equal: True is 1 and False is
\* 0, lists and tuples are equal item by item, dicts key by key whatever
\* the order of their keys, a function equals itself, and two methods of
\* one object are equal when one function is behind both.
RECURSIVE SameValue(_, _)
SameValue(a, b) ==
    IF a.k \in {"bool", "int"} /\ b.k \in {"bool", "int"} THEN number(a) = number(b)
    ELSE IF a.k # b.k THEN FALSE
    ELSE IF a.k = "method"
    THEN implementation(a) = implementation(b) /\ a.type = b.type /\ a.self = b.self
    ELSE IF a.k \in {"list", "tuple"}
    THEN Len(a.v) = Len(b.v) /\ \A i \in DOMAIN a.v : SameValue(a.v[i], b.v[i])
    ELSE IF a.k = "dict"
    THEN DOMAIN a.v = DOMAIN b.v /\ \A key \in DOMAIN a.v : SameValue(a.v[key], b.v[key])
    ELSE a = b

\* the rule of the comparison as stated, on the result and the expected
\* value of the latest call as they were when they were compared
Accepted ==
    \/ SameValue(last.outcome.result, last.outcome.compared)
    \/ last.outcome.result # ERROR /\ last.outcome.compared = ANY

\* C1 as stated: a feature that is executed succeeds exactly when its
\* result equals the expected value, or its result is not ERROR and the
\* expected value is ANY; with ERROR expected it succeeds exactly when the
\* result is ERROR, and with ANY expected every result but ERROR succeeds.
C1_CompareRule ==
    Executed =>
        /\ last.outcome.ret <=> Accepted
        /\ last.outcome.compared = ERROR =>
              (last.outcome.ret <=> last.outcome.result = ERROR)
        /\ (last.outcome.compared = ANY /\ last.outcome.result # ERROR) => last.outcome.ret

\* the rule of the comparison with the null expected value, the one of a
\* feature that states none, in the place of ANY
AcceptedUnstated ==
    \/ SameValue(last.outcome.result, last.outcome.compared)
    \/ last.outcome.result # ERROR /\ last.outcome.compared = NoneV

\* C1: a feature that is executed succeeds exactly when its result equals
\* the expected value, or its result is not ERROR and no value is expected
\* (the expected value is null); with ERROR expected it succeeds exactly
\* when the result is ERROR, with no value expected every result but ERROR
\* succeeds, and with the string ANY expected only the result ANY does.  A
\* call that ends in the message of a failure has not met the rule either.
C1_CompareRuleUnstated ==
    /\ Executed =>
          /\ last.outcome.ret <=> AcceptedUnstated
          /\ last.outcome.compared = ERROR =>
                (last.outcome.ret <=> last.outcome.result = ERROR)
          /\ (last.outcome.compared = NoneV /\ last.outcome.result # ERROR) => last.outcome.ret
          /\ last.outcome.compared = ANY => (last.outcome.ret <=> last.outcome.result = ANY)
    /\ (Called /\ last.outcome.kind = "fatal" /\ last.outcome.step = "message") => ~AcceptedUnstated

\* add(2, 3) without an expected value returns 5 and passes
C1_Witness ==
    /\ Executed
    /\ last.feature.property = "add"
    /\ last.feature.result = NoneV
    /\ last.outcome.compared = NoneV
    /\ last.outcome.result = IntV(5)
    /\ last.outcome.ret

\* add: [2, 3, {==: ANY}] returns 5, which is not the string ANY, and fails
LiteralIsNoWildcard ==
    /\ Executed
    /\ last.feature.property = "add"
    /\ last.outcome.compared = ANY
    /\ last.outcome.result = IntV(5)
    /\ ~last.outcome.ret

\* lst.0.conjugate== {lst.0.__trunc__: null}: two methods of the number 1
\* with one function behind them are equal
MethodsOfOneFunction ==
    /\ Executed
    /\ last.feature.property = "lst.0.conjugate"
    /\ last.outcome.result = MethodV("builtin", "conjugate", IntV(1))
    /\ last.outcome.compared = MethodV("builtin", "__trunc__", IntV(1))
    /\ last.outcome.ret

\* lst.0== true: the result 1 equals the expected value True
TrueIsOne ==
    /\ Executed
    /\ last.feature.property = "lst.0"
    /\ last.outcome.result = IntV(1)
    /\ last.outcome.compared = BoolV(TRUE)
    /\ last.outcome.ret

\* C2: the only exception that leaves test_feature is the one raised for an
\* assignment to an uppercase name that is already bound; every other
\* exception of the steps of a feature becomes the result ERROR.
C2_OnlyConstantErrorEscapes ==
    (pc = "crashed" /\ Called) =>
        /\ last.outcome.exception = "Exception"
        /\ last.feature.assign # ""
        /\ isupper(split(last.feature.assign)[Len(split(last.feature.assign))])

\* VERSION== {add: null}: the comparison fails and the message of the
\* failure raises TypeError, which leaves test_feature
MessageRaises ==
    /\ pc = "crashed"
    /\ Called
    /\ last.feature.property = "VERSION"
    /\ last.outcome.step = "message"
    /\ last.outcome.exception = "TypeError"

\* Where a walk from owner along names first meets a segment that is not
\* bound: the kind of the owner of that segment ("" when every segment is
\* bound) and the segments after it.
RECURSIVE MissingAt(_, _, _)
MissingAt(h, owner, names) ==
    IF names = <<>> THEN [kind |-> "", rest |-> <<>>]
    ELSE IF type(h, owner) = "dict"
    THEN IF Head(names) \in DOMAIN h[owner.v].v
         THEN MissingAt(h, h[owner.v].v[Head(names)], Tail(names))
         ELSE [kind |-> "mapping", rest |-> Tail(names)]
    ELSE IF type(h, owner) \in {"list", "tuple"}
    THEN IF ~IsRaise(int(Head(names))) /\ place(items_of(h, owner), int(Head(names)).v) # 0
         THEN MissingAt(h, items_of(h, owner)[place(items_of(h, owner), int(Head(names)).v)],
                        Tail(names))
         ELSE [kind |-> "sequence", rest |-> Tail(names)]
    ELSE With(LAMBDA found :
                IF found = NoAttribute THEN [kind |-> "object", rest |-> Tail(names)]
                ELSE MissingAt(h, found, Tail(names)),
              attribute(h, owner, Head(names)))

\* the first segment of the property of the latest call that is not bound
Unbound == MissingAt(last.heap, last.root, split(last.feature.property))
\* no segment after it names an attribute of None
NoneFollows == \A i \in DOMAIN Unbound.rest : attribute(last.heap, NoneV, Unbound.rest[i]) = NoAttribute

\* an executed read (no call) of a path with a segment that is not bound
ReadMissing ==
    /\ Executed
    /\ ~last.feature.call
    /\ last.feature.property # ""
    /\ Unbound.kind # ""

\* C3 as stated: a read of a path with an unbound segment has the result
\* ERROR, and passes only when the expected value is ANY or ERROR.
C3_MissingIsError ==
    ReadMissing =>
        /\ last.outcome.result = ERROR
        /\ last.outcome.ret => last.outcome.compared \in {ANY, ERROR}

\* C3: a read of a path whose first unbound segment is missing from a
\* mapping or from an object, and is followed by no attribute of None, has
\* the result None and passes exactly when no value is expected; when the
\* segment is an index that a sequence does not have, it has the result
\* ERROR and passes exactly when ERROR is expected.  The read of the
\* PACKAGE entry of a package that is not ready has the result ERROR
\* whatever the walk gave.
C3_MissingIsNoneOrError ==
    ReadMissing =>
        IF last.feature.assign = "PACKAGE" /\ ~last.ready
        THEN /\ last.outcome.result = ERROR
             /\ last.outcome.ret <=> last.outcome.compared = ERROR
        ELSE IF Unbound.kind = "sequence"
        THEN /\ last.outcome.result = ERROR
             /\ last.outcome.ret <=> last.outcome.compared = ERROR
        ELSE /\ NoneFollows =>
                  /\ last.outcome.result = NoneV
                  /\ last.outcome.ret <=> last.outcome.compared = NoneV
             /\ last.outcome.raised => ~NoneFollows

\* nope.sub== ERROR: the result is None and the feature fails
C3_Witness ==
    /\ ReadMissing
    /\ last.feature.property = "nope.sub"
    /\ Unbound.kind = "mapping"
    /\ NoneFollows
    /\ last.outcome.compared = ERROR
    /\ last.outcome.result = NoneV
    /\ ~last.outcome.ret

\* x=nope==: the read has a target, which is bound to the result None
ReadWithTarget ==
    /\ ReadMissing
    /\ last.feature.assign = "x"
    /\ last.feature.property = "nope"
    /\ last.outcome.result = NoneV
    /\ "x" \in DOMAIN last.outcome.scope
    /\ last.outcome.ret

\* x=lst.5==: ERROR: the index is out of range, the result is ERROR
IndexWithTarget ==
    /\ ReadMissing
    /\ last.feature.assign = "x"
    /\ Unbound.kind = "sequence"
    /\ last.outcome.result = ERROR
    /\ last.outcome.ret

\* PACKAGE=nope==: ERROR of a package that is not ready: the result is
\* ERROR, not the None of the walk, and the entry passes
ReadOfPackageEntry ==
    /\ ReadMissing
    /\ last.feature.assign = "PACKAGE"
    /\ ~last.ready
    /\ NoneFollows
    /\ last.outcome.result = ERROR
    /\ last.outcome.ret

\* nope.__bool__==: nope is not bound, and the walk goes on from None to
\* its method
WalkGoesOnFromNone ==
    /\ ReadMissing
    /\ last.feature.property = "nope.__bool__"
    /\ ~NoneFollows
    /\ last.outcome.result = MethodV("wrapper", "__bool__", NoneV)
    /\ last.outcome.ret

\* VERSION.upper(): an attribute Python builds in is bound
BuiltInIsBound ==
    /\ Executed
    /\ last.feature.property = "VERSION.upper"
    /\ Unbound.kind = ""
    /\ last.outcome.result = StrV("1.0")
    /\ last.outcome.ret

\* a feature with a target reaches the assign step
AssignPath == split(last.feature.assign)
AssignReached ==
    /\ Called
    /\ last.feature.assign # ""
    /\ \/ last.outcome.kind = "executed"
       \/ last.outcome.kind = "fatal" /\ last.outcome.step # "dereference"
\* and the final segment of the target is uppercase
UpperAssign == AssignReached /\ isupper(AssignPath[Len(AssignPath)])
\* what the scope binds to the target before and after the call: the
\* object itself, and the owner of the final segment
BoundBefore == path_walk(last.heap, last.root, AssignPath)
BoundAfter == path_walk(heap, last.root, AssignPath)
OwnerBefore == path_walk(last.heap, last.root, SubSeq(AssignPath, 1, Len(AssignPath) - 1))
\* the keys of the owner, when it is a mapping, before and after the call
KeysBefore ==
    IF type(last.heap, OwnerBefore) = "dict" THEN last.heap[OwnerBefore.v].order ELSE <<>>
KeysAfter ==
    IF type(last.heap, OwnerBefore) = "dict" THEN heap[OwnerBefore.v].order ELSE <<>>
\* the assign step bound nothing: the target is bound to the object it was
\* bound to, and its owner has the keys it had
NothingBound == BoundAfter = BoundBefore /\ KeysAfter = KeysBefore
\* the assign step bound the result at the target
ResultBound == seen(heap, BoundAfter) = last.outcome.result

\* Whether every uppercase name that a mapping bound to a value other than
\* None is bound to the same value afterwards, in the mapping and in the
\* mappings below it.
RECURSIVE ConstantsKept(_, _)
ConstantsKept(before, after) ==
    \A key \in DOMAIN before :
        IF isupper(key) /\ before[key] # NoneV
        THEN key \in DOMAIN after /\ after[key] = before[key]
        ELSE (before[key].k = "dict" /\ key \in DOMAIN after /\ after[key].k = "dict") =>
                ConstantsKept(before[key].v, after[key].v)

\* C4 as stated: an assignment to an uppercase path raises and leaves the
\* binding alone when the path is bound to a value other than None, and
\* binds the result without raising when the path is absent or bound to
\* None; and no call changes the value of an uppercase name that is bound
\* to a value other than None.
C4_ConstantRule ==
    /\ UpperAssign =>
          IF BoundBefore # NoneV
          THEN /\ last.outcome.kind = "fatal"
               /\ NothingBound
          ELSE /\ last.outcome.kind = "executed"
               /\ ResultBound
    /\ Called => ConstantsKept(last.before, seen(heap, last.root).v)

\* the first part of C4 alone: an assignment to an uppercase path that is
\* bound to a value other than None raises the constant error in the
\* assign step, and the path stays bound to the same object
BoundConstantRaises ==
    (UpperAssign /\ BoundBefore # NoneV) =>
        /\ last.outcome.kind = "fatal"
        /\ last.outcome.step = "assign"
        /\ last.outcome.exception = "Exception"
        /\ NothingBound

\* K= 1 when K is already 1 or more: the call raises, K keeps its value
ConstantIsProtected ==
    /\ UpperAssign
    /\ last.feature.assign = "K"
    /\ BoundBefore = IntV(1)
    /\ last.outcome.kind = "fatal"
    /\ BoundAfter = IntV(1)

\* add.K= 1: the owner is the function add, which takes the attribute
AttributeOnFunction ==
    /\ UpperAssign
    /\ last.feature.assign = "add.K"
    /\ type(last.heap, OwnerBefore) = "fn"
    /\ BoundBefore = NoneV
    /\ last.outcome.kind = "executed"
    /\ BoundAfter = IntV(1)
\* add.K= 1 again: the attribute is a constant of the function
AttributeIsConstant ==
    /\ UpperAssign
    /\ last.feature.assign = "add.K"
    /\ BoundBefore = IntV(1)
    /\ last.outcome.kind = "fatal"
    /\ BoundAfter = IntV(1)
\* K=K== when K is [(1,)]: the read makes the tuple a list in the list K
\* is bound to, and the call raises: K is bound to the same list, which
\* has changed
ConstantNormalised ==
    /\ UpperAssign
    /\ last.feature.assign = "K"
    /\ last.feature.property = "K"
    /\ last.outcome.kind = "fatal"
    /\ BoundAfter = BoundBefore
    /\ last.before["K"] = ListV(<<TupleV(<<IntV(1)>>)>>)
    /\ last.outcome.scope["K"] = ListV(<<ListV(<<IntV(1)>>)>>)
\* K= {a: 1} and K.a= 2: the assignment below K changes the value of K,
\* and nothing is raised
ConstantChangesBelow ==
    /\ Executed
    /\ last.feature.assign = "K.a"
    /\ last.before["K"] = Key("a", IntV(1))
    /\ last.outcome.scope["K"] = Key("a", IntV(2))
    /\ last.outcome.ret
\* PACKAGE=: missing: the path is absent, nothing is raised and nothing is
\* bound
PackageIsNotBound ==
    /\ UpperAssign
    /\ last.feature.assign = "PACKAGE"
    /\ ~last.ready
    /\ BoundBefore = NoneV
    /\ last.outcome.kind = "executed"
    /\ BoundAfter = NoneV
\* ns.K= 1 when ns is not bound: the path is absent and the call raises
\* AttributeError
AbsentPathRaises ==
    /\ UpperAssign
    /\ last.feature.assign = "ns.K"
    /\ OwnerBefore = NoneV
    /\ BoundBefore = NoneV
    /\ last.outcome.kind = "fatal"
    /\ last.outcome.exception = "AttributeError"
\* K= {ns: null} and ns.K= 1: K and ns are one mapping, so the assignment
\* to ns.K shows in the value of K
ConstantSharesObject ==
    /\ Executed
    /\ last.feature.assign = "ns.K"
    /\ "K" \in DOMAIN last.before
    /\ last.before["K"] = last.before["ns"]
    /\ last.outcome.scope["K"] # last.before["K"]
    /\ last.outcome.scope["K"] = last.outcome.scope["ns"]
    /\ path_walk(heap, last.root, <<"K">>) = path_walk(last.heap, last.root, <<"K">>)
\* x= {add: null} and x.K= 1: x is the function add, which takes the
\* attribute
FunctionSharesObject ==
    /\ Executed
    /\ last.feature.assign = "x.K"
    /\ type(last.heap, OwnerBefore) = "fn"
    /\ path_walk(heap, last.root, <<"add", "K">>) = IntV(1)

\* The comment that governs entry i of a file: the nearest one before it.
Governing(file, i) ==
    LET before == {j \in 1..(i - 1) : file[j].type = "str"}
    IN IF before = {} THEN 0 ELSE CHOOSE j \in before : \A other \in before : other <= j
\* a filter that does not apply to this implementation ('py')
Excludes(filters) ==
    /\ filters # <<>>
    /\ filters # <<"">>
    /\ IF filters[1] = "not"
       THEN \E i \in 2..Len(filters) : filters[i] = "py"
       ELSE \A i \in 1..Len(filters) : filters[i] # "py"
Inherited(file, i) == Governing(file, i) # 0 /\ Excludes(file[Governing(file, i)].filters)
\* the records of a document as they are now, and as they were when the
\* latest call began
Records(d) == [i \in DOMAIN specs[d].features |-> shown(heap, specs[d].features[i])]
RecordsBefore(d) == [i \in DOMAIN specs[d].features |-> shown(last.heap, specs[d].features[i])]
\* the file and its loaded features, entry by entry
Loaded == pc \in {"run", "exit0", "exit1"} /\ Len(specs) = 1 /\ Len(files) = 1
Entries == {i \in 1..Len(files[1]) : files[1][i].type = "map"}

\* C5 as stated: a feature's skip flag is the flag of the comment before
\* it, unless the feature has a filter of its own, which then decides.
C5_OwnFilterOverrides ==
    Loaded =>
        \A i \in Entries :
            Truthy(specs[1].features[i].skip) <=>
                IF files[1][i].filters # <<>>
                THEN Excludes(files[1][i].filters)
                ELSE Inherited(files[1], i)

\* C5: a feature is skipped exactly when the comment before it is skipped
\* or its own filter excludes it; a feature under a skipped comment stays
\* skipped whatever its own filter says, and a skipped feature is not
\* executed.
C5_SkipIsInheritedOrOwn ==
    /\ Loaded =>
          \A i \in Entries :
              Truthy(specs[1].features[i].skip) <=>
                  (Inherited(files[1], i) \/ Excludes(files[1][i].filters))
    /\ (Called /\ last.feature.comment = "") =>
          (last.outcome.kind = "skipped" <=>
              (Inherited(files[1], last.index) \/ Excludes(files[1][last.index].filters)))

\* a feature tagged py under a comment tagged js is skipped
C5_Witness ==
    /\ Called
    /\ files[1][last.index].type = "map"
    /\ files[1][last.index].filters = <<"py">>
    /\ Inherited(files[1], last.index)
    /\ last.outcome.kind = "skipped"

\* A value of the document with every reference marker in it replaced by
\* what the scope of the latest call bound to its path when the call began.
RECURSIVE Resolved(_)
Resolved(value) ==
    IF IsReference(value)
    THEN seen(last.heap, path_walk(last.heap, last.root, split(OnlyKey(value))))
    ELSE IF value.k = "dict"
    THEN Dict([key \in DOMAIN value.v |-> Resolved(value.v[key])], value.order)
    ELSE IF value.k = "list" THEN ListV([i \in DOMAIN value.v |-> Resolved(value.v[i])])
    ELSE value

\* C6: the reference markers among the arguments, the keyword arguments
\* and the expected value of a feature are replaced, when the feature is
\* executed, by what the scope binds at that moment, after the assignments
\* of the features before it.
C6_ReferencesAtExecution ==
    Executed =>
        /\ last.outcome.expected = Resolved(last.feature.result)
        /\ last.feature.call =>
              /\ last.outcome.args = Resolved(last.feature.args)
              /\ last.outcome.kwargs = Resolved(last.feature.kwargs)

\* x= 1 and then add(x, 1): the argument is 1, which no scope held when the
\* file was loaded
C6_Witness ==
    /\ Executed
    /\ last.feature.property = "add"
    /\ last.index = 3
    /\ IsReference(last.feature.args.v[1])
    /\ "x" \notin DOMAIN get_module_attributes("mathlib").v
    /\ last.outcome.args.v[1] = IntV(1)
    /\ last.outcome.ret

\* C7: test_spec reports success exactly when every entry of the document
\* is a comment, is skipped or passes, whether the document comes from one
\* file or from several files of one package.
C7_SuccessIffAllPass ==
    \A d \in DOMAIN reports :
        reports[d].success <=> reports[d].passed = Len(specs[d].features)

\* an entry that parse_feature rejects
Rejected(file) == \E i \in DOMAIN file : IsRaise(parse_feature(file[i]))
LoaderRaised == pc = "crashed" /\ ~Called

\* C8: a file with an entry that cannot be parsed is dropped by the loader
\* and nothing is raised: the loader does not end with the exception of
\* that entry.
C8_RejectedFileIsDropped ==
    (\E f \in DOMAIN files : Rejected(files[f])) => ~(LoaderRaised /\ error = "Exception")

\* the items of a call's right side
IsMarker(item) == item.k = "dict" /\ DOMAIN item.v = {"=="}
IsKeyword(item) ==
    /\ item.k = "dict"
    /\ Cardinality(DOMAIN item.v) = 1
    /\ OnlyKey(item) # "=="
    /\ endswith(OnlyKey(item), "=")
Plain(item) == ~IsMarker(item) /\ ~IsKeyword(item)
CallEntries ==
    {i \in Entries : /\ files[1][i].property # ""
                     /\ ~files[1][i].eq
                     /\ files[1][i].right.k = "list"}
Marked(items) == \E j \in DOMAIN items : IsMarker(items[j])
MarkerValue(items) == items[CHOOSE j \in DOMAIN items : IsMarker(items[j])].v["=="]

\* C9 as stated: without a '==' marker the last element of the right side
\* is the expected value and the elements before it are the arguments; with
\* a marker its value is the expected value and it is no argument.
C9_LastIsExpected ==
    Loaded =>
        \A i \in CallEntries :
            LET items == files[1][i].right.v
                feature == Records(1)[i]
            IN IF Marked(items)
               THEN /\ feature.result = MarkerValue(items)
                    /\ feature.args.v = SelectSeq(items, Plain)
               ELSE items # <<>> =>
                    /\ feature.result = items[Len(items)]
                    /\ feature.args.v = SubSeq(items, 1, Len(items) - 1)

\* C9: without a '==' marker the feature has no expected value and every
\* element of the right side that is not a keyword is an argument, the last
\* one included; with a marker its value is the expected value and it is no
\* argument.
C9_NoImplicitExpected ==
    Loaded =>
        \A i \in CallEntries :
            LET items == files[1][i].right.v
                feature == Records(1)[i]
            IN /\ feature.args.v = SelectSeq(items, Plain)
               /\ feature.result = IF Marked(items) THEN MarkerValue(items) ELSE NoneV

\* add: [2, 3, 5] is called with three arguments and nothing is expected
C9_Witness ==
    /\ Executed
    /\ files[1][last.index] = Feature("add", ListV(<<IntV(2), IntV(3), IntV(5)>>))
    /\ last.outcome.args = ListV(<<IntV(2), IntV(3), IntV(5)>>)
    /\ last.outcome.expected = NoneV
    /\ last.outcome.result = ERROR
    /\ ~last.outcome.ret

\* a file of the package entry and one call, run to its report
PackageAndCall ==
    /\ Len(files) = 1
    /\ Len(files[1]) = 2
    /\ files[1][1].property = ""
    /\ files[1][2].type = "map"
    /\ files[1][2].assign = ""
    /\ files[1][2].property # ""
    /\ ~files[1][2].eq
    /\ Len(reports) = 1
    /\ last.index = 2

PackagePasses == specs[1].ready \/ files[1][1].right = ERROR

NotReadyPasses ==
    /\ PackageAndCall
    /\ files[1][1] = ErrorNamed
    /\ ~specs[1].ready
    /\ last.outcome.ret
    /\ reports[1].numerator = 2
    /\ reports[1].denominator = 2
    /\ reports[1].success

\* PACKAGE=: missing and boom: [{==: ERROR}]: the package entry fails, 1/2
NotReadyFails ==
    /\ PackageAndCall
    /\ files[1][1] = Missing
    /\ last.outcome.ret
    /\ reports[1].numerator = 1
    /\ reports[1].denominator = 2
    /\ ~reports[1].success

\* the scope of a document as it is now, seen from outside
ScopeNow(d) == seen(heap, specs[d].scope).v
\* what parse_spec makes of file f alone, and the scope it gives it
Alone(f) == parse_spec(ModuleHeap, files[f])
ScopeAlone(f) == Alone(f).h[Alone(f).v.scope.v]

\* the PACKAGE entry of a package that is not ready reaches the assign step
NotReadyPackage ==
    /\ AssignReached
    /\ last.feature.assign = "PACKAGE"
    /\ ~last.ready
\* every feature before the next one of a document has been called
CalledInTurn == (pc = "run" /\ si = 1 /\ fi > 1) => (last.spec = 1 /\ last.index = fi - 1)
\* a document is ready when its modules gave it a scope, whatever the hooks
ReadyBeforeHooks ==
    (pc = "run" /\ Len(specs) = 1 /\ Len(files) = 1) =>
        (specs[1].ready <=> ScopeAlone(1).order # <<>>)

\* C11 as stated: the PACKAGE entry of a package that is not ready has the
\* result ERROR, binds nothing, raises nothing and fails; the features
\* after it are executed, and hooks do not make the document ready.
C11_NotReadyFails ==
    /\ NotReadyPackage =>
          /\ last.outcome.kind = "executed"
          /\ last.outcome.result = ERROR
          /\ last.outcome.scope = last.before
          /\ "PACKAGE" \notin DOMAIN last.outcome.scope
          /\ ~last.outcome.ret
    /\ CalledInTurn
    /\ ReadyBeforeHooks

\* C11: the PACKAGE entry of a package that is not ready has the result
\* ERROR, binds nothing and raises nothing; it fails unless the value it
\* declares is ERROR itself, which the forced result equals; the features
\* after it are executed, and hooks do not make the document ready.
C11_NotReadyForcesError ==
    /\ NotReadyPackage =>
          /\ last.outcome.kind = "executed"
          /\ last.outcome.result = ERROR
          /\ last.outcome.scope = last.before
          /\ ScopeNow(last.spec) = last.before
          /\ "PACKAGE" \notin DOMAIN last.outcome.scope
          /\ last.outcome.ret <=> last.feature.result = ERROR
    /\ CalledInTurn
    /\ ReadyBeforeHooks

\* PACKAGE=: missing with a hook file: the scope holds the hook, the
\* document is not ready and the entry fails
C11_Witness ==
    /\ NotReadyPackage
    /\ hooks
    /\ "$double" \in DOMAIN last.before
    /\ last.feature.result = StrV("missing")
    /\ last.outcome.result = ERROR
    /\ ~last.outcome.ret
    /\ pc = "run"
    /\ fi = 2

\* C12: the documents are executed in order, one report each; the result
\* of test_specs is true exactly when every document succeeded, a document
\* that fails does not stop the ones after it, and the exit status is not
\* zero exactly when the result is false.
C12_ExitIsConjunction ==
    /\ pc = "run" => Len(reports) = si - 1
    /\ pc \in {"run", "exit0", "exit1"} =>
          /\ \A d \in DOMAIN reports : reports[d].package = specs[d].package
          /\ success <=> \A d \in DOMAIN reports : reports[d].success
    /\ pc \in {"exit0", "exit1"} =>
          /\ Len(reports) = Len(specs)
          /\ pc = "exit1" <=> ~success

\* a document that fails, then one that succeeds: the run exits with 1
C12_Witness ==
    /\ pc = "exit1"
    /\ Len(reports) = 2
    /\ ~reports[1].success
    /\ reports[2].success
    /\ last.spec = 2

\* the path walk or the call of an executed feature raised
Raised == Executed /\ last.outcome.raised

\* C13 as stated: when the walk or the call raises, the result is ERROR,
\* the feature passes with ANY expected and fails with every other expected
\* value but ERROR.
C13_ErrorPassesWildcard ==
    Raised =>
        /\ last.outcome.result = ERROR
        /\ last.outcome.compared = ANY => last.outcome.ret
        /\ last.outcome.compared \notin {ANY, ERROR} => ~last.outcome.ret

\* C13: when the walk or the call raises, the result is ERROR and the
\* feature passes exactly when ERROR is expected: it fails with ANY
\* expected, and with no value expected, as with every other value.
C13_ErrorPassesOnlyError ==
    Raised =>
        /\ last.outcome.result = ERROR
        /\ last.outcome.ret <=> last.outcome.compared = ERROR

\* boom: [{==: ANY}] raises, ANY is expected, the feature fails
C13_Witness ==
    /\ Raised
    /\ last.feature.property = "boom"
    /\ last.outcome.compared = ANY
    /\ last.outcome.result = ERROR
    /\ ~last.outcome.ret

\* boom: [] raises, nothing is expected, the feature fails
NothingExpectedFails ==
    /\ Raised
    /\ last.feature.property = "boom"
    /\ last.outcome.compared = NoneV
    /\ last.outcome.result = ERROR
    /\ ~last.outcome.ret

\* the records parse_spec makes of file f alone
RecordsAlone(f) ==
    [i \in DOMAIN Alone(f).v.features |-> shown(Alone(f).h, Alone(f).v.features[i])]
\* The entries of the files of a package, from file f on, in the order of
\* discovery.
RECURSIVE Concatenated(_, _)
Concatenated(f, package) ==
    IF f > Len(files) THEN <<>>
    ELSE LET spec == Alone(f).v
         IN (IF spec.k = "spec" /\ spec.package = package THEN RecordsAlone(f) ELSE <<>>)
                \o Concatenated(f + 1, package)
IsPackageEntry(feature) == feature.comment = "" /\ feature.assign = "PACKAGE"
IsOtherEntry(feature) == ~IsPackageEntry(feature)
\* the concatenation without the PACKAGE entries after the first entry
Kept(package) ==
    LET all == Concatenated(1, package)
    IN <<all[1]>> \o SelectSeq(Tail(all), IsOtherEntry)
\* a feature list without the skip flags, which the loader sets afterwards
RECURSIVE Unflagged(_)
Unflagged(features) ==
    IF features = <<>> THEN <<>>
    ELSE <<[Head(features) EXCEPT !.skip = "None"]>> \o Unflagged(Tail(features))

\* C14: the feature list of a document is the concatenation of the feature
\* lists of its files, in the order of discovery, without the PACKAGE
\* entries at positions after the first: every other entry is kept, in
\* order, no second PACKAGE entry remains, and the loader does not fail on
\* the removal.
C14_MergeKeepsAllButPackage ==
    /\ LoaderRaised => error # "IndexError"
    /\ pc \in {"run", "exit0", "exit1"} =>
          \A d \in DOMAIN specs :
              /\ Unflagged(Records(d)) = Unflagged(Kept(specs[d].package))
              /\ \A i \in 2..Len(specs[d].features) : ~IsPackageEntry(specs[d].features[i])

\* the same for runs of at most two files, where at most one entry is removed
TwoFilesMerge ==
    Len(files) <= 2 => C14_MergeKeepsAllButPackage

\* the call was given a comment or a feature flagged to be skipped
CommentOrSkipped == Called /\ (last.feature.comment # "" \/ last.feature.skip = "True")

\* C15: the call of a comment or of a skipped feature returns a pass and
\* leaves the scope and every object as they were: nothing is walked,
\* called, assigned or checked, so the target of a skipped assignment stays
\* unbound for the features after it.
C15_SkippedLeavesScope ==
    CommentOrSkipped =>
        /\ last.outcome.kind \in {"comment", "skipped"}
        /\ last.outcome.ret
        /\ ~last.outcome.raised
        /\ last.outcome.scope = last.before
        /\ ScopeNow(last.spec) = last.before
        /\ heap = last.heap
        /\ pc # "crashed"

\* js:x= 1 is skipped: x is not bound afterwards
C15_Witness ==
    /\ CommentOrSkipped
    /\ last.feature.assign = "x"
    /\ last.outcome.kind = "skipped"
    /\ "x" \notin DOMAIN ScopeNow(last.spec)
    /\ fi = last.index + 1

\* C16: a call of test_feature leaves the records of the document as they
\* were: the arguments, keyword arguments and expected value of the feature
\* it was given, reference markers and nested collections included, are
\* after the call, whatever its outcome, what they were before it, and so
\* are those of every other feature; they are the ones the loader stored,
\* so the entry can be executed again from the same data.
C16_RecordUnchanged ==
    /\ Called => \A d \in DOMAIN specs : Records(d) = RecordsBefore(d)
    /\ Called => Records(last.spec)[last.index] = last.feature
    /\ (pc \in {"run", "crashed", "exit0", "exit1"} /\ Len(specs) = 1 /\ Len(files) = 1) =>
          Unflagged(Records(1)) = Unflagged(RecordsAlone(1))

\* add(x, 1) was called with the value of x; the record still holds the
\* reference marker
C16_Witness ==
    /\ Executed
    /\ last.feature.property = "add"
    /\ last.outcome.args.v[1] = IntV(1)
    /\ Records(last.spec)[last.index].args.v[1] = Ref("x")
    /\ Records(last.spec)[last.index].result = IntV(2)
    /\ heap # last.heap

\* x= {add: null}: the expected value the call worked with is the function
\* add, and the record still holds the reference marker
MarkerIsKept ==
    /\ Executed
    /\ last.feature.assign = "x"
    /\ last.outcome.expected.k = "fn"
    /\ Records(last.spec)[last.index].result = Ref("add")

\* C17: parse_feature flags an entry with filter tags to be skipped exactly
\* when 'py' does not match them: without a leading 'not' when 'py' is not
\* among the tags, with a leading 'not' when it is; an entry without a
\* filter, or with an empty prefix that holds no tag, gets a flag that is
\* not true.
C17_FilterFlag ==
    \A f \in DOMAIN files : \A i \in DOMAIN files[f] :
        LET entry == files[f][i]
            flag == parse_feature(entry).skip
            tagged == \E t \in DOMAIN entry.filters : entry.filters[t] = "py"
        IN IF entry.filters \in {<<>>, <<"">>} THEN ~Truthy(flag)
           ELSE IF entry.filters[1] = "not" THEN Truthy(flag) <=> tagged
           ELSE Truthy(flag) <=> ~tagged

\* not:js:py on a feature: loaded with a true flag and skipped when run
C17_Witness ==
    /\ Called
    /\ files[1][last.index].filters = <<"not", "js", "py">>
    /\ parse_feature(files[1][last.index]).skip = "True"
    /\ ~Inherited(files[1], last.index)
    /\ last.outcome.kind = "skipped"

\* C18: after the load, the counters of every document add up,
\* features = comments + tests, and features is the number of entries of
\* the feature list that test_spec walks, for documents of one file and of
\* several files.
C18_StatsMatchFeatures ==
    pc \in {"run", "exit0", "exit1"} =>
        \A d \in DOMAIN specs :
            /\ specs[d].stats.features = specs[d].stats.comments + specs[d].stats.tests
            /\ specs[d].stats.features = Len(specs[d].features)

\* the same for the runs of one file, and the sum alone for every run
OneFileStats == Len(files) = 1 => C18_StatsMatchFeatures
StatsAddUp ==
    \A d \in DOMAIN specs :
        specs[d].stats.features = specs[d].stats.comments + specs[d].stats.tests

\* what the assign step does to a target it may bind
Binds ==
    IF last.feature.assign = "PACKAGE" /\ ~last.ready
    THEN last.outcome.kind = "executed" /\ NothingBound
    ELSE IF BoundBefore # NoneV /\ isupper(AssignPath[Len(AssignPath)])
    THEN last.outcome.kind = "fatal" /\ NothingBound
    ELSE /\ last.outcome.step # "assign"
         /\ ResultBound
         /\ last.outcome.kind = "executed" => ScopeNow(last.spec) = last.outcome.scope
         /\ last.outcome.raised => last.outcome.result = ERROR

\* C19: a feature with a target binds its result at the target whatever
\* the comparison gives, the result ERROR of an execution that raised
\* included, which the features after it then see (and which protects an
\* uppercase target); nothing is bound only for PACKAGE of a package that
\* is not ready and for a bound constant.
C19_AssignBindsResult == AssignReached => Binds

\* the attributes of a function that setattr does not keep in its __dict__
FunctionSlots ==
    { "__name__", "__qualname__", "__doc__", "__module__", "__defaults__", "__kwdefaults__",
      "__dict__", "__annotations__", "__code__", "__class__", "__closure__", "__globals__",
      "__builtins__" }
\* the owner of the target takes the final segment: it is a mapping, or a
\* function and the segment is none of its slots
OwnerTakes ==
    \/ type(last.heap, OwnerBefore) = "dict"
    \/ type(last.heap, OwnerBefore) = "fn" /\ AssignPath[Len(AssignPath)] \notin FunctionSlots
\* the same for the targets whose owner takes the final segment
AssignBindsInMapping == (AssignReached /\ OwnerTakes) => Binds

\* add.__name__= 5: the name of a function must be a string, the
\* assignment raises TypeError and the function keeps its name
SlotRejects ==
    /\ AssignReached
    /\ last.feature.assign = "add.__name__"
    /\ last.outcome.kind = "fatal"
    /\ last.outcome.step = "assign"
    /\ last.outcome.exception = "TypeError"
    /\ BoundAfter = StrV("add")

\* K= boom() raised: K is bound to ERROR and the feature failed
ErrorIsBound ==
    /\ AssignReached
    /\ last.feature.assign = "K"
    /\ last.outcome.raised
    /\ ~last.outcome.ret
    /\ BoundAfter = ERROR
====
